---- MODULE Spec2Model ----
(***************************************************************************)
(* The decoding/search engine of PGAgent (nsm/agent_factory.py): the       *)
(* trajectory scorer (compute_trajectory_actions_prob), the sketch-guided  *)
(* sampler (sample), the sketch-guided beam search (new_beam_search) and   *)
(* the unconstrained beam search (beam_search).                            *)
(*                                                                         *)
(* Conventions.  Python positions are 0-based; sequences here are 1-based, *)
(* so a Python position p is the element p+1.  The time step t keeps its   *)
(* Python value (0 for the first step); the token read at step t is        *)
(* tokens[t+1].  Scores are log-probabilities, modelled as integers <= 0;  *)
(* float('-inf') is NegInf.  Environments are mutable Python objects: they *)
(* live in heap, and a hypothesis holds the position of its environment in *)
(* heap (its identity).                                                    *)
(***************************************************************************)
EXTENDS Integers, Sequences, FiniteSets, TLC

VARIABLES
    algo,               \* which entry point is called: "nbs" | "sample" | "bs" | "score" |
                        \* "gpu" (sample_gpu) | "decode" (decode_examples)
    beam_size,          \* argument beam_size
    sample_num,         \* argument sample_num
    force,              \* argument force_sketch_coverage
    return_list,        \* argument return_list (read when the call returns)
    world,              \* the interpreter's rules (acts, bad, fin, plen)
    cands,              \* per question, the candidate sketches the sketch predictor gives
    constraint_sketches, \* argument constraint_sketches: None, or a dict name -> sketches
    dec,                \* which decoder (score table) is plugged in
    trajectories,       \* scorer: the batch of trajectories it is given
    pc,                 \* "start" | "loop" | "final" | "done" | "error"
    raised,             \* the exception that ended the call, "" if none
    result,             \* what the call returned
    heap,               \* every environment object, by identity
    t,                  \* state_tm1.t
    beams,              \* OrderedDict name -> live hypotheses, as a sequence of entries
    completed_hyps,     \* name -> completed hypotheses
    observations_tm1,   \* one observation per flattened row
    state_tm1,          \* one recurrent decoder state per flattened row
    hyp_scores_tm1,     \* one running score per flattened row
    context_encoding,   \* one context-encoding row per flattened row (beam_search: per question)
    context_encoding_expanded,  \* beam_search: one context-encoding row per padded row
    max_live_hyp_num,   \* beam_search: the number of rows of every live question
    live_beam_names,    \* beam_search: the names of the live questions
    sketch_encoding,    \* one sketch-encoding row per flattened row
    active_envs,        \* sample: the active environments; sample_gpu: the active rows
    sketches,           \* sample: the sketch of every active position
    sample_probs,       \* sample: the accumulated log-probability of every active position
    sketch_action_t,    \* sample: the local of that name (0: not assigned yet)
    completed_envs,     \* sample: the (environment, score) pairs that completed
    action_logits,      \* scorer: per time step, the decoder's scores of every row
    steps,              \* history: every env.step call, in order, as <<identity, time step>>
    ghost,              \* history, per environment: its sketch, the environment it was
                        \* cloned from, and the sum of the decoder's scores of the
                        \* actions it executed at variable slots
    hist,               \* history: what the last step did, per question
    asked,              \* history: the K of every sketch_predictor.get_sketches call
    environments,       \* decode_examples: argument environments, as a list of names
    batch_size,         \* decode_examples: argument batch_size
    use_sketch_constrained_decoding,    \* decode_examples: the config entry of that name
    decode_results,     \* decode_examples: the local of that name
    batch_id            \* decode_examples: the number of batches taken from batch_iter

decode_inputs == <<environments, batch_size, use_sketch_constrained_decoding>>

inputs == <<algo, beam_size, sample_num, force, world, cands, constraint_sketches, dec,
            trajectories, decode_inputs>>

locals == <<heap, t, beams, completed_hyps, observations_tm1, state_tm1, hyp_scores_tm1,
            context_encoding, context_encoding_expanded, max_live_hyp_num,
            live_beam_names, sketch_encoding, active_envs, sketches, sample_probs,
            sketch_action_t, completed_envs, action_logits, steps, ghost, hist, asked,
            decode_results, batch_id>>

vars == <<algo, beam_size, sample_num, force, return_list, world, cands,
          constraint_sketches, dec, trajectories, action_logits, pc, raised,
          result, heap, t, beams, completed_hyps, observations_tm1, state_tm1,
          hyp_scores_tm1, context_encoding, context_encoding_expanded, max_live_hyp_num,
          live_beam_names, sketch_encoding, active_envs, sketches,
          sample_probs, sketch_action_t, completed_envs, steps, ghost, hist, asked,
          environments, batch_size, use_sketch_constrained_decoding, decode_results,
          batch_id>>

(***************************************************************************)
(* Bounds of the model.                                                    *)
(***************************************************************************)
MaxBeam == 2        \* beam_size (and sample_num) range over 1..MaxBeam
MaxProgLen == 3     \* the interpreter ends a program after at most MaxProgLen actions
MaxSamples == 2     \* sample_num ranges over 0..MaxSamples
MaxClones == 3      \* sample is run on batches that make at most MaxClones clones
MaxBatch == 2       \* the scorer is given at most MaxBatch trajectories
MaxBsProgLen == 5   \* beam_search: a program ends after at most MaxBsProgLen actions
MaxEnvs == 3        \* decode_examples is given at most MaxEnvs environments
MaxBatchSize == 2   \* decode_examples: batch_size ranges over 1..MaxBatchSize

NegInf == -1000000  \* float('-inf')

(***************************************************************************)
(* Small helpers on sequences.                                             *)
(***************************************************************************)
Range(s) == {s[i] : i \in 1..Len(s)}

\* list.index(x): the first position holding x
IndexOf(s, x) == CHOOSE i \in 1..Len(s) : s[i] = x /\ \A j \in 1..(i - 1) : s[j] # x

\* tensor[indices] / [lst[i] for i in indices]: gather rows by a list of positions
Gather(rows, idx) == [i \in 1..Len(idx) |-> rows[idx[i]]]

Min(a, b) == IF a <= b THEN a ELSE b

\* float addition with -inf absorbing
Add(x, y) == IF x = NegInf \/ y = NegInf THEN NegInf ELSE x + y

(***************************************************************************)
(* Collaborators.  The interpreter (nsm.env_factory), the sketch           *)
(* (nsm.sketch), the encoders and the decoder are not part of the engine;  *)
(* they are modelled from their interface.                                 *)
(***************************************************************************)
EnvNames == <<"q1", "q2">>

\* decoder.memory_size: the number of action ids
MemorySize == 3

Actions == 1..MemorySize

\* the orders in which an interpreter may list its valid actions
ActLists == {<<1, 2>>, <<2, 1, 3>>, <<3, 1>>}

\* An interpreter: acts is the valid-action list of a running program, bad the
\* action whose execution fails (0: none), fin the action whose execution ends the
\* program (0: none), plen the length at which a program ends in any case.
Worlds == [acts : ActLists, bad : {0, 1}, fin : {0, 3}, plen : 1..MaxProgLen]

\* the interpreters beam_search is run on: their programs may run longer, so that
\* a question can have beam_size completed hypotheses and still be live, and one
\* of them has a single valid action, fewer than the widest beam
BsWorlds ==
    [acts : ActLists \cup {<<2>>}, bad : {0, 1}, fin : {0, 3}, plen : 1..MaxBsProgLen]

NewEnv(name) == [name |-> name, prog |-> <<>>, done |-> FALSE, error |-> FALSE]

\* env.valid_actions: the ordered list of absolute action ids
ValidActions(w, env) == IF env.done THEN <<>> ELSE w.acts

\* the observation an environment shows (start_ob, and the ob_t of a step)
ObsOf(env) == [name |-> env.name, prog |-> env.prog]

\* Observation.empty(): the observation of a padding row; it has no valid action
EmptyOb == [name |-> "", prog |-> <<>>]

\* the valid_action_mask of an observation, as the set of the actions it marks
ObsValid(w, ob) == IF ob = EmptyOb THEN {} ELSE Range(w.acts)

\* env.step(rel_action_id), rel being a position in env.valid_actions
EnvStep(w, env, rel) ==
    LET a == ValidActions(w, env)[rel]
        p == Append(env.prog, a)
    IN  [name |-> env.name, prog |-> p,
         done |-> (a = w.bad \/ a = w.fin \/ Len(p) >= w.plen),
         error |-> (a = w.bad)]

\* env.de_vocab.lookup(token)
Lookup(token) == CASE token = "A" -> 1 [] token = "B" -> 2 [] token = "C" -> 3

\* sketch.is_variable_slot(token)
IsVariableSlot(token) == token = "v"

Sk(tokens, prob) == [tokens |-> tokens, prob |-> prob]

\* the candidate sketch lists a question may be given (sketch_predictor.get_sketches
\* or constraint_sketches), best first
SketchLists ==
    { <<>>,
      << Sk(<<"v">>, -1) >>,
      << Sk(<<"A", "v", "B">>, -1) >>,
      << Sk(<<"v", "v">>, -1), Sk(<<"v", "C">>, -1) >>,
      << Sk(<<"v", "B">>, 0), Sk(<<"B", "v">>, -1), Sk(<<"v">>, -2) >>,
      << Sk(<<"C", "v">>, 0), Sk(<<"v", "A">>, -2) >> }

\* the candidate sketch lists of the second question of the batch
OtherSketchLists ==
    { <<>>,
      << Sk(<<"v">>, -1) >>,
      << Sk(<<"C", "v">>, 0), Sk(<<"v", "A">>, -2) >> }

CandidateSketches ==
    {c \in [Range(EnvNames) -> SketchLists] : c[EnvNames[2]] \in OtherSketchLists}

\* the candidate sketches of the batches that sample is run on
SampleCandidateSketches ==
    {c \in CandidateSketches : Len(c[EnvNames[2]]) <= 1}

\* the argument constraint_sketches: None, or a dict from names to sketch lists
NoConstraint == [none |-> TRUE, items |-> <<>>]

Dict(items) == [none |-> FALSE, items |-> items]

\* line 463 as a test against None: an empty dict counts as given
TruthyNotNone(cs) == ~cs.none

\* the truth value of the argument (line 463): None and the empty dict are false
Truthy(cs) == ~cs.none /\ DOMAIN cs.items # {}

\* constraint_sketches.get(name, [])
Get(cs, name) == IF name \in DOMAIN cs.items THEN cs.items[name] ELSE <<>>

\* the dicts a call is given as constraint_sketches
ConstraintDicts ==
    { Dict(<<>>),
      Dict([nm \in {"q1"} |-> << Sk(<<"v">>, -1) >>]),
      Dict([nm \in {"q1"} |-> <<>>]),
      Dict([nm \in {"q1", "q2"} |->
               IF nm = "q1" THEN <<>> ELSE << Sk(<<"C", "v">>, 0), Sk(<<"v", "A">>, -2) >>]),
      Dict([nm \in {"q1", "q2"} |->
               IF nm = "q1" THEN << Sk(<<"v", "v">>, -1), Sk(<<"v", "C">>, -1) >>
               ELSE << Sk(<<"v">>, -1) >>]) }

\* what the sketch predictor gives in the calls that are given a dict
ConstrainedCands ==
    {c \in CandidateSketches :
        \/ c["q1"] = <<>> /\ c["q2"] = <<>>
        \/ c["q1"] = << Sk(<<"A", "v", "B">>, -1) >> /\ c["q2"] = << Sk(<<"v">>, -1) >>}

\* the K of the get_sketches calls of lines 259-262 and 469
PredictorK == 5

\* Sketch.__eq__: token-sequence equality
SketchEq(s1, s2) == s1.tokens = s2.tokens

\* sketch[i] for a Python position i: out of range raises IndexError
InRange(sketch, i) == i < Len(sketch.tokens)
TokenAt(sketch, i) == sketch.tokens[i + 1]

MaxLen(sks) == IF sks = <<>> THEN 0
               ELSE CHOOSE n \in {Len(sks[i].tokens) : i \in 1..Len(sks)} :
                        \A i \in 1..Len(sks) : Len(sks[i].tokens) <= n

\* sketch_encoder(sketches): a dict of tensors with one row per sketch, padded to
\* the longest sketch of the call; mask is 1 at the positions of the sketch,
\* var_time_step_mask is 1 exactly at its variable slots
SketchEncode(sks) ==
    [value |-> [i \in 1..Len(sks) |-> sks[i].tokens],
     mask |-> [i \in 1..Len(sks) |->
                 [k \in 1..MaxLen(sks) |-> IF k <= Len(sks[i].tokens) THEN 1 ELSE 0]],
     var_time_step_mask |->
         [i \in 1..Len(sks) |->
            [k \in 1..MaxLen(sks) |->
                IF k <= Len(sks[i].tokens) /\ IsVariableSlot(sks[i].tokens[k])
                THEN 1 ELSE 0]]]

\* encoder.encode(contexts): a dict of tensors with one row per environment
ContextEncode(names) ==
    [question_encoding |-> names,
     question_mask |-> names,
     question_encoding_att_linear |-> names]

\* row i of a dict of tensors
RowOf(enc, i) == [k \in DOMAIN enc |-> enc[k][i]]

\* decoder.get_initial_state: one state row per (context row, sketch row)
InitialState(ctx, ske) ==
    [i \in 1..Len(ctx.question_encoding) |->
        [ctx |-> ctx.question_encoding[i], sk |-> ske.value[i], seen |-> <<>>]]

\* the state row after a decoder step on observation ob
NextStateRow(st, ob) == [st EXCEPT !.seen = Append(@, ob)]

QNum(name) == IF name = "q1" THEN 0 ELSE 1

\* the number of positions a mask row marks
Ones(m) == Cardinality({k \in 1..Len(m) : m[k] = 1})

\* The action score (a log-probability) of a decoder step for one row: a
\* function of that row's observation, recurrent state, context row and sketch
\* row.
DecScore(d, ob, st, ctx, ske, a) ==
    IF d = 1
    THEN 0 - ((a + Len(ob.prog) + QNum(ctx.question_encoding) + QNum(ctx.question_mask)
                 + QNum(st.ctx) + Len(ske.value) + Ones(ske.mask) + Len(st.seen)) % 3)
    ELSE IF d = 2
    THEN IF a = 3 THEN NegInf
         ELSE 0 - (1 + ((QNum(ob.name) + Len(st.sk)
                           + QNum(ctx.question_encoding_att_linear)) % 2))
    ELSE IF QNum(ctx.question_mask) = 0 /\ Len(ob.prog) = 0
         THEN 0 - (1 + (a % 2))
         ELSE 0 - (a * (4 ^ Len(st.seen)))

\* the decoders the sketch-guided searches are run with
Decoders == {1, 2}

\* the decoders beam_search is run with
BsDecoders == {1, 3}

(***************************************************************************)
(* new_beam_search.                                                        *)
(*                                                                         *)
(* The search is written as operators on a record S of the call's locals   *)
(* (the fields carry the names of the variables above) and a record P of   *)
(* its arguments, so that the same code can be run on another batch.       *)
(***************************************************************************)
Hyp(sketch, env, score) == [kind |-> "hyp", sketch |-> sketch, env |-> env, score |-> score]

CandidateHyp(sketch, prev_hyp_env, action_id, rel_action_id, score, prev_hyp_abs_pos) ==
    [kind |-> "cand", sketch |-> sketch, prev_hyp_env |-> prev_hyp_env,
     action_id |-> action_id, rel_action_id |-> rel_action_id, score |-> score,
     prev_hyp_abs_pos |-> prev_hyp_abs_pos]

\* Trajectory.from_environment(env) and the Sample built from it; src is the
\* identity of the environment the trajectory was read from
Sample(h, id, prob) ==
    [trajectory |-> [name |-> h[id].name, program |-> h[id].prog, src |-> id], prob |-> prob]

\* _expand_encoding that passes over the key 'mask'
ExpandEncodingButMask(tensor_dict, indices, keys) ==
    [k \in DOMAIN tensor_dict |->
        IF k \in keys /\ k # "mask" THEN Gather(tensor_dict[k], indices)
        ELSE tensor_dict[k]]

\* _expand_encoding: the tensors named by keys, gathered by a list of positions
ExpandEncoding(tensor_dict, indices, keys) ==
    [k \in DOMAIN tensor_dict |->
        IF k \in keys THEN Gather(tensor_dict[k], indices) ELSE tensor_dict[k]]

RECURSIVE Flatten(_, _)
\* hyp_sketches / flattened_hyp_env_idx_ptr: the candidate sketches of all
\* questions in one list, each with the position of its question
Flatten(nested, i) ==
    IF i > Len(nested) THEN <<>>
    ELSE [k \in 1..Len(nested[i]) |-> [q |-> i, sketch |-> nested[i][k]]]
            \o Flatten(nested, i + 1)

\* the number of flattened rows that belong to the questions before question i
RowsBefore(flat, i) == Cardinality({k \in 1..Len(flat) : flat[k].q < i})

NoGhost == [sketch |-> Sk(<<>>, 0), ground |-> 0, parent |-> 0]

NoHist == [live |-> FALSE, prior |-> <<>>, pool |-> <<>>, uncov |-> {}]

\* lines 454-532: the initial beams, one hypothesis per candidate sketch, each on
\* a clone of the question's environment, and the flattened buffers
NbsBegin(P, names) ==
    LET n == Len(names)
        nested == IF Truthy(P.constraint_sketches)
                  THEN [i \in 1..n |-> Get(P.constraint_sketches, names[i])]
                  ELSE [i \in 1..n |-> P.cands[names[i]]]
        flat == Flatten(nested, 1)
        hyp_sketches == [k \in 1..Len(flat) |-> flat[k].sketch]
        ptr == [k \in 1..Len(flat) |-> flat[k].q]
        ske == SketchEncode(hyp_sketches)
        ctx == ExpandEncoding(ContextEncode(names), ptr,
                              {"question_encoding", "question_mask",
                               "question_encoding_att_linear"})
    IN  [heap |-> [i \in 1..n |-> NewEnv(names[i])]
                    \o [k \in 1..Len(flat) |-> NewEnv(names[flat[k].q])],
         beams |-> [i \in 1..n |->
                     [name |-> names[i],
                      hyps |-> [k \in 1..Len(nested[i]) |->
                                  Hyp(nested[i][k], n + RowsBefore(flat, i) + k,
                                      nested[i][k].prob)]]],
         completed_hyps |-> [nm \in Range(names) |-> <<>>],
         t |-> 0,
         observations_tm1 |-> [k \in 1..Len(flat) |-> ObsOf(NewEnv(names[flat[k].q]))],
         context_encoding |-> IF Len(flat) = 0 THEN ContextEncode(names) ELSE ctx,
         sketch_encoding |-> IF Len(flat) = 0 THEN <<>> ELSE ske,
         state_tm1 |-> IF Len(flat) = 0 THEN <<>> ELSE InitialState(ctx, ske),
         hyp_scores_tm1 |-> [k \in 1..Len(flat) |-> flat[k].sketch.prob],
         steps |-> <<>>,
         ghost |-> [i \in 1..n |-> NoGhost]
                     \o [k \in 1..Len(flat) |->
                           [sketch |-> flat[k].sketch, ground |-> 0, parent |-> flat[k].q]],
         hist |-> [nm \in Range(names) |-> NoHist],
         asked |-> IF Truthy(P.constraint_sketches) THEN <<>> ELSE <<PredictorK>>,
         raised |-> "",
         pc |-> IF Len(flat) = 0 THEN "final" ELSE "loop"]

RECURSIVE InsertAsc(_, _, _)
\* the place of x in a list sorted by ascending score (line 648 without
\* reverse=True)
InsertAsc(sorted, x, i) ==
    IF i > Len(sorted) THEN Append(sorted, x)
    ELSE IF sorted[i].score > x.score
         THEN SubSeq(sorted, 1, i - 1) \o <<x>> \o SubSeq(sorted, i, Len(sorted))
         ELSE InsertAsc(sorted, x, i + 1)

RECURSIVE InsertDescUnstable(_, _, _)
\* the place of x under a descending sort that is not stable: in front of the
\* entries of the same score
InsertDescUnstable(sorted, x, i) ==
    IF i > Len(sorted) THEN Append(sorted, x)
    ELSE IF sorted[i].score <= x.score
         THEN SubSeq(sorted, 1, i - 1) \o <<x>> \o SubSeq(sorted, i, Len(sorted))
         ELSE InsertDescUnstable(sorted, x, i + 1)

RECURSIVE InsertDesc(_, _, _)
\* the place of x in a list sorted by descending score: behind every entry whose
\* score is not smaller (the sort is stable)
InsertDesc(sorted, x, i) ==
    IF i > Len(sorted) THEN Append(sorted, x)
    ELSE IF sorted[i].score < x.score
         THEN SubSeq(sorted, 1, i - 1) \o <<x>> \o SubSeq(sorted, i, Len(sorted))
         ELSE InsertDesc(sorted, x, i + 1)

RECURSIVE SortDescFrom(_, _, _)
SortDescFrom(lst, i, sorted) ==
    IF i > Len(lst) THEN sorted
    ELSE SortDescFrom(lst, i + 1, InsertDesc(sorted, lst[i], 1))

\* lst.sort(key=lambda hyp: hyp.score, reverse=True), and sorted(...)
SortDesc(lst) == SortDescFrom(lst, 1, <<>>)

\* lines 551-555: the score of continuing the hypothesis of flattened row `row`
\* with action a: decoder score times the row's variable-slot mask at t, plus the
\* row's running score.  (A -inf score times a 0 mask is not modelled: scores are
\* read at variable slots only.)
ContScore(P, S, row, a) ==
    LET sc == DecScore(P.dec, S.observations_tm1[row], S.state_tm1[row],
                       RowOf(S.context_encoding, row), RowOf(S.sketch_encoding, row), a)
        m == S.sketch_encoding.var_time_step_mask[row][S.t + 1]
    IN  Add(IF m = 1 THEN sc ELSE 0, S.hyp_scores_tm1[row])

\* lines 583-614 keeping the best valid action only: one candidate, of the first
\* valid action of highest finite score
VarCandsBest(P, S, prev_hyp, row) ==
    LET valid == ValidActions(P.world, S.heap[prev_hyp.env])
        all == [rel \in 1..Len(valid) |->
                  CandidateHyp(prev_hyp.sketch, prev_hyp.env, valid[rel], rel,
                               ContScore(P, S, row, valid[rel]), row)]
        Best(c) == /\ c.score # NegInf
                   /\ \A rel \in 1..Len(all) :
                         \/ all[rel].score < c.score
                         \/ all[rel].score = c.score /\ rel >= c.rel_action_id
    IN  SelectSeq(all, Best)

\* lines 583-614: a variable slot yields one candidate per valid action whose
\* score is finite, in the order of the valid-action list
VarCands(P, S, prev_hyp, row) ==
    LET valid == ValidActions(P.world, S.heap[prev_hyp.env])
        all == [rel \in 1..Len(valid) |->
                  CandidateHyp(prev_hyp.sketch, prev_hyp.env, valid[rel], rel,
                               ContScore(P, S, row, valid[rel]), row)]
        Finite(c) == c.score # NegInf
    IN  SelectSeq(all, Finite)

\* lines 615-631 without the test of line 619 that the action is valid: the
\* candidate is made anyway, on the first valid action when its own is not valid
FixedCandsUnchecked(P, S, prev_hyp, row) ==
    LET abs_action_id == Lookup(TokenAt(prev_hyp.sketch, S.t))
        valid == ValidActions(P.world, S.heap[prev_hyp.env])
    IN  << CandidateHyp(prev_hyp.sketch, prev_hyp.env, abs_action_id,
                        IF abs_action_id \in Range(valid)
                        THEN IndexOf(valid, abs_action_id) ELSE 1,
                        prev_hyp.score, row) >>

\* lines 615-631 with the candidate scored like a continuation of a variable
\* slot: the decoder's score of the token's action is added to the parent's score
FixedCandsScored(P, S, prev_hyp, row) ==
    LET abs_action_id == Lookup(TokenAt(prev_hyp.sketch, S.t))
        valid == ValidActions(P.world, S.heap[prev_hyp.env])
        sc == DecScore(P.dec, S.observations_tm1[row], S.state_tm1[row],
                       RowOf(S.context_encoding, row), RowOf(S.sketch_encoding, row),
                       abs_action_id)
    IN  IF abs_action_id \in Range(valid)
        THEN << CandidateHyp(prev_hyp.sketch, prev_hyp.env, abs_action_id,
                             IndexOf(valid, abs_action_id),
                             Add(prev_hyp.score, sc), row) >>
        ELSE <<>>

\* lines 615-631: a fixed token yields the one candidate of its own action, if
\* that action is valid, and no candidate otherwise
FixedCands(P, S, prev_hyp, row) ==
    LET abs_action_id == Lookup(TokenAt(prev_hyp.sketch, S.t))
        valid == ValidActions(P.world, S.heap[prev_hyp.env])
    IN  IF abs_action_id \in Range(valid)
        THEN << CandidateHyp(prev_hyp.sketch, prev_hyp.env, abs_action_id,
                             IndexOf(valid, abs_action_id), prev_hyp.score, row) >>
        ELSE <<>>

\* lines 575-631 for one live hypothesis
CandsOf(P, S, prev_hyp, row) ==
    IF IsVariableSlot(TokenAt(prev_hyp.sketch, S.t))
    THEN VarCands(P, S, prev_hyp, row)
    ELSE FixedCands(P, S, prev_hyp, row)

RECURSIVE BeamCands(_, _, _, _, _)
\* continuing_candidates[env_name]: the candidates of the beam's hypotheses, in
\* beam order
BeamCands(P, S, beam, beam_start, i) ==
    IF i > Len(beam) THEN <<>>
    ELSE CandsOf(P, S, beam[i], beam_start + i) \o BeamCands(P, S, beam, beam_start, i + 1)

RECURSIVE RowOfEnv(_, _, _, _)
\* history: the flattened row of the live hypothesis that owns environment id
RowOfEnv(bs, id, bi, before) ==
    IF bi > Len(bs) THEN 0
    ELSE IF \E k \in 1..Len(bs[bi].hyps) : bs[bi].hyps[k].env = id
         THEN before + (CHOOSE k \in 1..Len(bs[bi].hyps) : bs[bi].hyps[k].env = id)
         ELSE RowOfEnv(bs, id, bi + 1, before + Len(bs[bi].hyps))

\* history: the child of candidate c inherits its parent's sketch and sum, plus
\* the decoder's score of c's action when the parent's sketch has a variable slot
\* at this step
GhostOfChild(P, S, gh, c) ==
    LET par == gh[c.prev_hyp_env]
        row == RowOfEnv(S.beams, c.prev_hyp_env, 1, 0)
    IN  [sketch |-> par.sketch,
         parent |-> c.prev_hyp_env,
         ground |-> IF IsVariableSlot(TokenAt(par.sketch, S.t))
                    THEN Add(par.ground,
                             DecScore(P.dec, S.observations_tm1[row], S.state_tm1[row],
                                      RowOf(S.context_encoding, row),
                                      RowOf(S.sketch_encoding, row), c.action_id))
                    ELSE par.ground]

\* new_beams.setdefault(env_name, []).append(new_hyp)
SetDefaultAppend(nb, name, h) ==
    IF \E j \in 1..Len(nb) : nb[j].name = name
    THEN [j \in 1..Len(nb) |->
            IF nb[j].name = name THEN [nb[j] EXCEPT !.hyps = Append(@, h)] ELSE nb[j]]
    ELSE Append(nb, [name |-> name, hyps |-> <<h>>])

\* _add_hypothesis_to_new_beam without the `if not new_hyp_env.error` test of line
\* 665: a clone that ended in error is kept as completed
AddHypothesisKeepFailed(P, S, A, name, c) ==
    IF c.kind = "hyp"
    THEN [A EXCEPT !.completed_hyps[name] = Append(@, c)]
    ELSE LET id == Len(A.heap) + 1
             e == EnvStep(P.world, A.heap[c.prev_hyp_env], c.rel_action_id)
             A1 == [A EXCEPT !.heap = Append(@, e),
                             !.steps = Append(@, <<id, S.t>>),
                             !.ghost = Append(@, GhostOfChild(P, S, A.ghost, c))]
             new_hyp == Hyp(c.sketch, id, c.score)
         IN  IF e.done
             THEN [A1 EXCEPT !.completed_hyps[e.name] = Append(@, new_hyp)]
             ELSE [A1 EXCEPT !.new_beams = SetDefaultAppend(@, name, new_hyp),
                             !.parents = Append(@, c.prev_hyp_abs_pos),
                             !.observations_t = Append(@, ObsOf(e)),
                             !.new_hyp_scores = Append(@, c.score)]

\* lines 654-672 with the new hypothesis built on the parent's environment
\* (env=_hyp.prev_hyp_env) instead of on the clone that was stepped
AddHypothesisSharing(P, S, A, name, c) ==
    IF c.kind = "hyp"
    THEN [A EXCEPT !.completed_hyps[name] = Append(@, c)]
    ELSE LET id == Len(A.heap) + 1
             e == EnvStep(P.world, A.heap[c.prev_hyp_env], c.rel_action_id)
             A1 == [A EXCEPT !.heap = Append(@, e),
                             !.steps = Append(@, <<id, S.t>>),
                             !.ghost = Append(@, GhostOfChild(P, S, A.ghost, c))]
             new_hyp == Hyp(c.sketch, c.prev_hyp_env, c.score)
         IN  IF e.done
             THEN IF ~e.error
                  THEN [A1 EXCEPT !.completed_hyps[e.name] = Append(@, new_hyp)]
                  ELSE A1
             ELSE [A1 EXCEPT !.new_beams = SetDefaultAppend(@, name, new_hyp),
                             !.parents = Append(@, c.prev_hyp_abs_pos),
                             !.observations_t = Append(@, ObsOf(e)),
                             !.new_hyp_scores = Append(@, c.score)]

\* lines 654-672, _add_hypothesis_to_new_beam: a completed hypothesis goes back
\* to the completed pool; a candidate is executed on a clone of its parent's
\* environment and is kept as completed, kept as live, or dropped (done with error)
AddHypothesisToNewBeam(P, S, A, name, c) ==
    IF c.kind = "hyp"
    THEN [A EXCEPT !.completed_hyps[name] = Append(@, c)]
    ELSE LET id == Len(A.heap) + 1
             e == EnvStep(P.world, A.heap[c.prev_hyp_env], c.rel_action_id)
             A1 == [A EXCEPT !.heap = Append(@, e),
                             !.steps = Append(@, <<id, S.t>>),
                             !.ghost = Append(@, GhostOfChild(P, S, A.ghost, c))]
             new_hyp == Hyp(c.sketch, id, c.score)
         IN  IF e.done
             THEN IF ~e.error
                  THEN [A1 EXCEPT !.completed_hyps[e.name] = Append(@, new_hyp)]
                  ELSE A1
             ELSE [A1 EXCEPT !.new_beams = SetDefaultAppend(@, name, new_hyp),
                             !.parents = Append(@, c.prev_hyp_abs_pos),
                             !.observations_t = Append(@, ObsOf(e)),
                             !.new_hyp_scores = Append(@, c.score)]

\* the sketches of not_covered that a pool entry covers (lines 683-689, 693-698)
CoveredBy(not_covered, c) == {sk \in not_covered : SketchEq([tokens |-> sk], c.sketch)}

RECURSIVE AdmitAll(_, _, _, _, _, _, _, _)
\* the walk of lines 674-704 without the test new_beam_size < beam_size of line
\* 677: every pool entry is handed over
AdmitAll(P, S, name, pool, i, A, new_beam_size, not_covered) ==
    IF i > Len(pool) THEN A
    ELSE LET c == pool[i]
             A1 == AddHypothesisToNewBeam(P, S, A, name, c)
             nc == IF P.force THEN not_covered \ CoveredBy(not_covered, c) ELSE not_covered
             A2 == [A1 EXCEPT !.hist[name].uncov = nc]
         IN  AdmitAll(P, S, name, pool, i + 1, A2, new_beam_size + 1, nc)

RECURSIVE AdmitRescueAny(_, _, _, _, _, _, _, _)
\* the walk of lines 674-704 without the coverage tests of lines 683-689 and
\* 693-698: beyond the width, an entry is handed over as long as some sketch is
\* uncovered, whether it covers one or not
AdmitRescueAny(P, S, name, pool, i, A, new_beam_size, not_covered) ==
    IF i > Len(pool) THEN A
    ELSE LET c == pool[i]
             within == new_beam_size < P.beam_size
             rescue == ~within /\ P.force /\ not_covered # {}
             A1 == IF within \/ rescue THEN AddHypothesisToNewBeam(P, S, A, name, c) ELSE A
             nc == IF P.force /\ (within \/ rescue)
                   THEN not_covered \ CoveredBy(not_covered, c) ELSE not_covered
             A2 == IF within THEN [A1 EXCEPT !.hist[name].uncov = nc] ELSE A1
         IN  AdmitRescueAny(P, S, name, pool, i + 1, A2, new_beam_size + 1, nc)

RECURSIVE AdmitRescueAgain(_, _, _, _, _, _, _, _)
\* the walk of lines 674-704 without line 700: an entry handed over beyond the
\* width leaves its sketch uncovered
AdmitRescueAgain(P, S, name, pool, i, A, new_beam_size, not_covered) ==
    IF i > Len(pool) THEN A
    ELSE LET c == pool[i]
             within == new_beam_size < P.beam_size
             rescue == ~within /\ P.force /\ not_covered # {}
                        /\ CoveredBy(not_covered, c) # {}
             A1 == IF within \/ rescue THEN AddHypothesisToNewBeam(P, S, A, name, c) ELSE A
             nc == IF P.force /\ within
                   THEN not_covered \ CoveredBy(not_covered, c) ELSE not_covered
             A2 == IF within THEN [A1 EXCEPT !.hist[name].uncov = nc] ELSE A1
         IN  AdmitRescueAgain(P, S, name, pool, i + 1, A2, new_beam_size + 1, nc)

RECURSIVE AdmitOneMore(_, _, _, _, _, _, _, _)
\* the walk of lines 674-704 with the test new_beam_size <= beam_size at line
\* 677: one entry more than the width is handed over
AdmitOneMore(P, S, name, pool, i, A, new_beam_size, not_covered) ==
    IF i > Len(pool) THEN A
    ELSE LET c == pool[i]
             within == new_beam_size <= P.beam_size
             rescue == ~within /\ P.force /\ not_covered # {}
                        /\ CoveredBy(not_covered, c) # {}
             A1 == IF within \/ rescue THEN AddHypothesisToNewBeam(P, S, A, name, c) ELSE A
             nc == IF P.force /\ (within \/ rescue)
                   THEN not_covered \ CoveredBy(not_covered, c) ELSE not_covered
             A2 == IF within THEN [A1 EXCEPT !.hist[name].uncov = nc] ELSE A1
         IN  AdmitOneMore(P, S, name, pool, i + 1, A2, new_beam_size + 1, nc)

RECURSIVE Admit(_, _, _, _, _, _, _, _)
\* lines 674-704: walk the sorted pool.  The first beam_size entries are handed
\* to _add_hypothesis_to_new_beam; with force_sketch_coverage a later entry is
\* handed over when it covers a sketch that is still uncovered.  new_beam_size
\* counts the entries walked.  hist[name].uncov records the uncovered sketches
\* left by the entries walked while new_beam_size < beam_size.
Admit(P, S, name, pool, i, A, new_beam_size, not_covered) ==
    IF i > Len(pool) THEN A
    ELSE LET c == pool[i]
             within == new_beam_size < P.beam_size
             rescue == ~within /\ P.force /\ not_covered # {}
                        /\ CoveredBy(not_covered, c) # {}
             A1 == IF within \/ rescue THEN AddHypothesisToNewBeam(P, S, A, name, c) ELSE A
             nc == IF P.force /\ (within \/ rescue)
                   THEN not_covered \ CoveredBy(not_covered, c) ELSE not_covered
             A2 == IF within THEN [A1 EXCEPT !.hist[name].uncov = nc] ELSE A1
         IN  Admit(P, S, name, pool, i + 1, A2, new_beam_size + 1, nc)

RECURSIVE BeamCandsSynced(_, _, _, _, _)
\* the candidates of the hypotheses of the beam whose sketch has a position t
BeamCandsSynced(P, S, beam, beam_start, i) ==
    IF i > Len(beam) THEN <<>>
    ELSE (IF InRange(beam[i].sketch, S.t)
          THEN CandsOf(P, S, beam[i], beam_start + i) ELSE <<>>)
            \o BeamCandsSynced(P, S, beam, beam_start, i + 1)

\* lines 565-706 reading no token for a hypothesis whose sketch has no position
\* t: the hypothesis is passed over and the search goes on
ProcessBeamNoCheck(P, S, A, bi) ==
    LET name == S.beams[bi].name
        beam == S.beams[bi].hyps
        pool == SortDesc(A.completed_hyps[name]
                           \o BeamCandsSynced(P, S, beam, A.beam_start, 1))
        not_covered == IF P.force
                       THEN {beam[k].sketch.tokens : k \in 1..Len(beam)}
                       ELSE {}
        A0 == [A EXCEPT !.completed_hyps[name] = <<>>,
                        !.hist[name] = [live |-> TRUE, prior |-> beam,
                                        pool |-> pool, uncov |-> not_covered]]
        A1 == Admit(P, S, name, pool, 1, A0, 0, not_covered)
    IN  [A1 EXCEPT !.beam_start = @ + Len(beam)]

\* lines 565-706 with beam_start left at 0 (line 706 missing): every question
\* reads the rows of the first
ProcessBeamNoOffset(P, S, A, bi) ==
    LET name == S.beams[bi].name
        beam == S.beams[bi].hyps
    IN  IF \E k \in 1..Len(beam) : ~InRange(beam[k].sketch, S.t)
        THEN [A EXCEPT !.raised = "IndexError"]
        ELSE LET pool == SortDesc(A.completed_hyps[name] \o BeamCands(P, S, beam, 0, 1))
                 not_covered == IF P.force
                                THEN {beam[k].sketch.tokens : k \in 1..Len(beam)}
                                ELSE {}
                 A0 == [A EXCEPT !.completed_hyps[name] = <<>>,
                                 !.hist[name] = [live |-> TRUE, prior |-> beam,
                                                 pool |-> pool, uncov |-> not_covered]]
             IN  Admit(P, S, name, pool, 1, A0, 0, not_covered)

\* lines 565-706 with all_candidates built as continuing_candidates[env_name] +
\* completed_hyps[env_name] (line 647 the other way round)
ProcessBeamCandsFirst(P, S, A, bi) ==
    LET name == S.beams[bi].name
        beam == S.beams[bi].hyps
    IN  IF \E k \in 1..Len(beam) : ~InRange(beam[k].sketch, S.t)
        THEN [A EXCEPT !.raised = "IndexError"]
        ELSE LET pool == SortDesc(BeamCands(P, S, beam, A.beam_start, 1)
                                    \o A.completed_hyps[name])
                 not_covered == IF P.force
                                THEN {beam[k].sketch.tokens : k \in 1..Len(beam)}
                                ELSE {}
                 A0 == [A EXCEPT !.completed_hyps[name] = <<>>,
                                 !.hist[name] = [live |-> TRUE, prior |-> beam,
                                                 pool |-> pool, uncov |-> not_covered]]
                 A1 == Admit(P, S, name, pool, 1, A0, 0, not_covered)
             IN  [A1 EXCEPT !.beam_start = @ + Len(beam)]

\* lines 565-706 for the question at position bi of beams.  Reading the sketch
\* token of a hypothesis whose sketch has no position t raises IndexError.
ProcessBeam(P, S, A, bi) ==
    LET name == S.beams[bi].name
        beam == S.beams[bi].hyps
    IN  IF \E k \in 1..Len(beam) : ~InRange(beam[k].sketch, S.t)
        THEN [A EXCEPT !.raised = "IndexError"]
        ELSE LET pool == SortDesc(A.completed_hyps[name]
                                    \o BeamCands(P, S, beam, A.beam_start, 1))
                 not_covered == IF P.force
                                THEN {beam[k].sketch.tokens : k \in 1..Len(beam)}
                                ELSE {}
                 A0 == [A EXCEPT !.completed_hyps[name] = <<>>,
                                 !.hist[name] = [live |-> TRUE, prior |-> beam,
                                                 pool |-> pool, uncov |-> not_covered]]
                 A1 == Admit(P, S, name, pool, 1, A0, 0, not_covered)
             IN  [A1 EXCEPT !.beam_start = @ + Len(beam)]

RECURSIVE ProcessBeams(_, _, _, _)
ProcessBeams(P, S, A, bi) ==
    IF bi > Len(S.beams) \/ A.raised # "" THEN A
    ELSE ProcessBeams(P, S, ProcessBeam(P, S, A, bi), bi + 1)

\* lines 534-729: one iteration of the while loop
NbsStep(P, S) ==
    IF S.t >= Len(S.sketch_encoding.var_time_step_mask[1])
    THEN [S EXCEPT !.pc = "error", !.raised = "IndexError"]
    ELSE
    LET A0 == [heap |-> S.heap, completed_hyps |-> S.completed_hyps, new_beams |-> <<>>,
               observations_t |-> <<>>, parents |-> <<>>, new_hyp_scores |-> <<>>,
               beam_start |-> 0, steps |-> S.steps, ghost |-> S.ghost,
               hist |-> [nm \in DOMAIN S.hist |-> NoHist], raised |-> ""]
        A == ProcessBeams(P, S, A0, 1)
        state_t == [row \in 1..Len(S.state_tm1) |->
                      NextStateRow(S.state_tm1[row], S.observations_tm1[row])]
        S1 == [S EXCEPT !.heap = A.heap, !.completed_hyps = A.completed_hyps,
                        !.steps = A.steps, !.ghost = A.ghost, !.hist = A.hist]
    IN  IF A.raised # "" THEN [S1 EXCEPT !.pc = "error", !.raised = A.raised]
        ELSE IF Len(A.new_beams) = 0 THEN [S1 EXCEPT !.pc = "final"]
        ELSE [S1 EXCEPT !.state_tm1 = Gather(state_t, A.parents),
                        !.t = S.t + 1,
                        !.observations_tm1 = A.observations_t,
                        !.hyp_scores_tm1 = A.new_hyp_scores,
                        !.context_encoding =
                            ExpandEncoding(S.context_encoding, A.parents,
                                           {"question_encoding", "question_mask",
                                            "question_encoding_att_linear"}),
                        !.sketch_encoding =
                            ExpandEncoding(S.sketch_encoding, A.parents,
                                           {"value", "mask", "var_time_step_mask"}),
                        !.beams = A.new_beams]

Samples(h, hyps) == [k \in 1..Len(hyps) |-> Sample(h, hyps[k].env, hyps[k].score)]

RECURSIVE FlatSamples(_, _, _)
FlatSamples(S, names, i) ==
    IF i > Len(names) THEN <<>>
    ELSE Samples(S.heap, S.completed_hyps[names[i]]) \o FlatSamples(S, names, i + 1)

\* lines 731-745 (and the early return of line 509)
NbsReturn(P, S, names, rl) ==
    IF ~rl
    THEN [kind |-> "dict",
          val |-> [nm \in Range(names) |->
                     LET sorted_hyps == SortDesc(S.completed_hyps[nm])
                     IN  Samples(S.heap,
                                 SubSeq(sorted_hyps, 1, Min(P.beam_size, Len(sorted_hyps))))]]
    ELSE [kind |-> "list", val |-> FlatSamples(S, names, 1)]


(***************************************************************************)
(* beam_search.  Action ids are 0-based in the code and 1-based here: the  *)
(* flat position p of torch.topk names the row p / memory_size of the beam *)
(* and the action id p % memory_size, which is the action (p % M) + 1.     *)
(***************************************************************************)
\* line 766: decoder.get_initial_state(context_encoding), without sketches
BsInitialState(ctx) ==
    [i \in 1..Len(ctx.question_encoding) |->
        [ctx |-> ctx.question_encoding[i], sk |-> <<>>, seen |-> <<>>]]

NoSketchRow == [value |-> <<>>, mask |-> <<>>, var_time_step_mask |-> <<>>]

\* lines 753-767
BsBegin(P, names) ==
    LET n == Len(names)
        ctx == ContextEncode(names)
    IN  [heap |-> [i \in 1..n |-> NewEnv(names[i])],
         max_live_hyp_num |-> 1,
         live_beam_names |-> names,
         beams |-> [i \in 1..n |->
                     [name |-> names[i],
                      hyps |-> << [env |-> i, score |-> 0, ob |-> ObsOf(NewEnv(names[i])),
                                   parent_beam_abs_pos |-> 0] >>]],
         completed_hyps |-> [nm \in Range(names) |-> <<>>],
         t |-> 0,
         context_encoding |-> ctx,
         context_encoding_expanded |-> ctx,
         observations_tm1 |-> [i \in 1..n |-> ObsOf(NewEnv(names[i]))],
         state_tm1 |-> BsInitialState(ctx),
         hyp_scores_tm1 |-> [i \in 1..n |-> 0],
         steps |-> <<>>,
         ghost |-> [i \in 1..n |-> NoGhost],
         raised |-> "",
         pc |-> IF n = 0 THEN "final" ELSE "loop"]

\* lines 769-783, _expand_context: the rows of the live questions, each repeated
\* _max_live_hyp_num times
ExpandContext(ctx_encoding, live_beam_ids, m, batch_num) ==
    [key \in DOMAIN ctx_encoding |->
        LET tensor == IF Len(live_beam_ids) < batch_num
                      THEN Gather(ctx_encoding[key], live_beam_ids)
                      ELSE ctx_encoding[key]
        IN  [r \in 1..(Len(tensor) * m) |-> tensor[((r - 1) \div m) + 1]]]

\* the padded row of hypothesis prev_hyp_id (0-based) of the beam at position beam_id
BsRow(S, beam_id, prev_hyp_id) == S.max_live_hyp_num * (beam_id - 1) + prev_hyp_id + 1

\* lines 791-795: the decoder's score of row `row` for action a, -inf where the
\* observation's valid-action mask is 0
ActionProb(P, S, row, a) ==
    IF a \in ObsValid(P.world, S.observations_tm1[row])
    THEN DecScore(P.dec, S.observations_tm1[row], S.state_tm1[row],
                  RowOf(S.context_encoding_expanded, row), NoSketchRow, a)
    ELSE NegInf

\* line 795, viewed as line 798 views it: the score at flat position p of the beam
NewHypScore(P, S, beam_id, p) ==
    LET row == BsRow(S, beam_id, p \div MemorySize)
    IN  Add(ActionProb(P, S, row, (p % MemorySize) + 1), S.hyp_scores_tm1[row])

\* line 798 without the test of line 813: the walk goes through all of the
\* beam_size entries torch.topk returns, the non-finite ones included
TopKNoStop(P, S, beam_id) ==
    LET positions == 0..(S.max_live_hyp_num * MemorySize - 1)
        k == Min(P.beam_size, Cardinality(positions))
        sc(p) == NewHypScore(P, S, beam_id, p)
    IN  {sel \in [1..k -> positions] :
            /\ \A i, j \in 1..k : i < j => sel[i] # sel[j] /\ sc(sel[i]) >= sc(sel[j])
            /\ \A p \in positions : (\A i \in 1..k : sel[i] # p) => sc(p) <= sc(sel[k])}

\* line 798, torch.topk for one beam.  The order of equal scores is not specified,
\* so every order is possible.  The loop of line 808 stops at the first -inf
\* entry: a result is given by its finite entries.
TopK(P, S, beam_id) ==
    LET positions == 0..(S.max_live_hyp_num * MemorySize - 1)
        fin == {p \in positions : NewHypScore(P, S, beam_id, p) # NegInf}
        kf == Min(P.beam_size, Cardinality(fin))
        sc(p) == NewHypScore(P, S, beam_id, p)
    IN  {sel \in [1..kf -> fin] :
            /\ \A i, j \in 1..kf : i < j => sel[i] # sel[j] /\ sc(sel[i]) >= sc(sel[j])
            /\ \A p \in fin : (\A i \in 1..kf : sel[i] # p) => sc(p) <= sc(sel[kf])}

TopKs(P, S) ==
    {top \in [1..Len(S.beams) -> UNION {TopK(P, S, b) : b \in 1..Len(S.beams)}] :
        \A b \in 1..Len(S.beams) : top[b] \in TopK(P, S, b)}

\* the hypotheses new_beams holds for a question
BeamOf(nb, name) ==
    IF \E j \in 1..Len(nb) : nb[j].name = name
    THEN nb[CHOOSE j \in 1..Len(nb) : nb[j].name = name].hyps
    ELSE <<>>

RECURSIVE BsCands(_, _, _, _, _, _, _)
\* lines 808-835: walk the top candidates of the beam at position beam_id, from
\* cand_idx on.  Each is executed on a clone of its parent's environment; a clone
\* that is done is kept as completed unless it failed; a clone that is not done
\* joins the new beam, and the walk stops when the new beam has live_beam_size
\* hypotheses.
BsCands(P, S, C, beam_id, sel, cand_idx, live_beam_size) ==
    IF cand_idx > Len(sel) \/ C.raised # "" THEN C
    ELSE
    LET env_name == S.beams[beam_id].name
        beam == S.beams[beam_id].hyps
        new_hyp_score == NewHypScore(P, S, beam_id, sel[cand_idx])
        prev_hyp_id == sel[cand_idx] \div MemorySize
        hyp_action_id == (sel[cand_idx] % MemorySize) + 1
    IN  IF prev_hyp_id >= Len(beam) THEN [C EXCEPT !.raised = "IndexError"]
        ELSE
        LET prev_hyp == beam[prev_hyp_id + 1]
            valid == ValidActions(P.world, C.heap[prev_hyp.env])
        IN  IF hyp_action_id \notin Range(valid) THEN [C EXCEPT !.raised = "ValueError"]
            ELSE
            LET id == Len(C.heap) + 1
                row == BsRow(S, beam_id, prev_hyp_id)
                e == EnvStep(P.world, C.heap[prev_hyp.env], IndexOf(valid, hyp_action_id))
                C1 == [C EXCEPT !.heap = Append(@, e),
                                !.steps = Append(@, <<id, S.t>>),
                                !.ghost = Append(@,
                                    [sketch |-> Sk(<<>>, 0),
                                     parent |-> prev_hyp.env,
                                     ground |-> Add(C.ghost[prev_hyp.env].ground,
                                                    ActionProb(P, S, row, hyp_action_id))])]
            IN  IF e.done
                THEN BsCands(P, S,
                             IF ~e.error
                             THEN [C1 EXCEPT !.completed_hyps[e.name] =
                                                 Append(@, Hyp(Sk(<<>>, 0), id, new_hyp_score))]
                             ELSE C1,
                             beam_id, sel, cand_idx + 1, live_beam_size)
                ELSE LET new_hyp == [env |-> id, score |-> new_hyp_score, ob |-> ObsOf(e),
                                     parent_beam_abs_pos |->
                                         S.max_live_hyp_num * (beam_id - 1) + prev_hyp_id]
                         C2 == [C1 EXCEPT !.new_beams = SetDefaultAppend(@, env_name, new_hyp)]
                     IN  IF Len(BeamOf(C2.new_beams, env_name)) = live_beam_size
                         THEN C2
                         ELSE BsCands(P, S, C2, beam_id, sel, cand_idx + 1, live_beam_size)

RECURSIVE BsBeams(_, _, _, _, _)
\* lines 806-835: the beams in order
BsBeams(P, S, C, top, beam_id) ==
    IF beam_id > Len(S.beams) \/ C.raised # "" THEN C
    ELSE BsBeams(P, S,
                 BsCands(P, S, C, beam_id, top[beam_id], 1,
                         P.beam_size - Len(C.completed_hyps[S.beams[beam_id].name])),
                 top, beam_id + 1)

\* line 759
empty_hyp == [env |-> 0, score |-> NegInf, ob |-> EmptyOb, parent_beam_abs_pos |-> 0]

RECURSIVE PadBeamsShort(_, _, _)
\* lines 845-854 without the padding of line 849
PadBeamsShort(nb, m, j) ==
    IF j > Len(nb) THEN <<>>
    ELSE nb[j].hyps \o PadBeamsShort(nb, m, j + 1)

RECURSIVE PadBeams(_, _, _)
\* lines 845-854: the hypotheses of the new beams in one list, every beam padded
\* with empty_hyp to m entries
PadBeams(nb, m, j) ==
    IF j > Len(nb) THEN <<>>
    ELSE nb[j].hyps \o [k \in 1..(m - Len(nb[j].hyps)) |-> empty_hyp] \o PadBeams(nb, m, j + 1)

\* lines 786-870: one iteration of the while loop; top is what torch.topk returned
BsStep(P, S, names, top) ==
    IF P.beam_size > S.max_live_hyp_num * MemorySize
    THEN [S EXCEPT !.pc = "error", !.raised = "RuntimeError"]
    ELSE
    LET C0 == [heap |-> S.heap, completed_hyps |-> S.completed_hyps, new_beams |-> <<>>,
               steps |-> S.steps, ghost |-> S.ghost, raised |-> ""]
        C == BsBeams(P, S, C0, top, 1)
        nb == C.new_beams
        state_t == [row \in 1..Len(S.state_tm1) |->
                      NextStateRow(S.state_tm1[row], S.observations_tm1[row])]
        S1 == [S EXCEPT !.heap = C.heap, !.completed_hyps = C.completed_hyps,
                        !.steps = C.steps, !.ghost = C.ghost]
    IN  IF C.raised # "" THEN [S1 EXCEPT !.pc = "error", !.raised = C.raised]
        ELSE IF Len(nb) = 0 THEN [S1 EXCEPT !.pc = "final"]
        ELSE
        LET new_max_live_hyp_num ==
                CHOOSE m \in {Len(nb[j].hyps) : j \in 1..Len(nb)} :
                    \A j \in 1..Len(nb) : Len(nb[j].hyps) <= m
            padded == PadBeams(nb, new_max_live_hyp_num, 1)
            new_live_beam_names == [j \in 1..Len(nb) |-> nb[j].name]
            InNewBeams(i) == \E j \in 1..Len(nb) : nb[j].name = names[i]
            live_beam_ids == SelectSeq([i \in 1..Len(names) |-> i], InNewBeams)
        IN  [S1 EXCEPT
               !.state_tm1 = Gather(state_t, [k \in 1..Len(padded) |->
                                                 padded[k].parent_beam_abs_pos + 1]),
               !.t = S.t + 1,
               !.hyp_scores_tm1 = [k \in 1..Len(padded) |-> padded[k].score],
               !.observations_tm1 = [k \in 1..Len(padded) |-> padded[k].ob],
               !.beams = nb,
               !.context_encoding_expanded =
                   IF new_live_beam_names # S.live_beam_names
                        \/ new_max_live_hyp_num # S.max_live_hyp_num
                   THEN ExpandContext(S.context_encoding, live_beam_ids,
                                      new_max_live_hyp_num, Len(names))
                   ELSE S.context_encoding_expanded,
               !.live_beam_names = new_live_beam_names,
               !.max_live_hyp_num = new_max_live_hyp_num]

\* lines 872-877
BsReturn(P, S, names) ==
    [kind |-> "dict",
     val |-> [nm \in Range(names) |->
                LET sorted_hyps == SortDesc(S.completed_hyps[nm])
                IN  Samples(S.heap,
                            SubSeq(sorted_hyps, 1, Min(P.beam_size, Len(sorted_hyps))))]]

(***************************************************************************)
(* sample.                                                                 *)
(***************************************************************************)
\* the questions that have candidate sketches, and the ways to draw sample_num
\* sketch positions for each of them (np.random.choice with replacement; every
\* candidate has a positive probability)
Draws(P, names) ==
    LET withSketches == {i \in 1..Len(names) : Len(P.cands[names[i]]) > 0}
        anyDraw == UNION {[1..P.sample_num -> 1..Len(P.cands[names[i]])] : i \in withSketches}
    IN  {draw \in [withSketches -> anyDraw] :
            \A i \in withSketches : \A k \in 1..P.sample_num :
                draw[i][k] <= Len(P.cands[names[i]])}

\* lines 270-300 drawing from constraint_sketches when it is given, as
\* new_beam_search reads it
DrawnSketchesConstrained(P, names, draw) ==
    [i \in 1..Len(names) |->
        IF i \in DOMAIN draw
        THEN [k \in 1..P.sample_num |->
                IF Truthy(P.constraint_sketches)
                     /\ draw[i][k] <= Len(Get(P.constraint_sketches, names[i]))
                THEN Get(P.constraint_sketches, names[i])[draw[i][k]]
                ELSE P.cands[names[i]][draw[i][k]]]
        ELSE <<>>]

\* lines 270-300: sampled_sketches of every question that has sketches
DrawnSketches(P, names, draw) ==
    [i \in 1..Len(names) |->
        IF i \in DOMAIN draw
        THEN [k \in 1..P.sample_num |-> P.cands[names[i]][draw[i][k]]]
        ELSE <<>>]

\* lines 267-318 without the test of line 272: drawing from the empty sketch
\* list of a question raises (numpy.random.choice of an empty list)
SampleBeginNoSkip(P, names, draw) ==
    IF \E i \in 1..Len(names) : Len(P.cands[names[i]]) = 0
    THEN [heap |-> [i \in 1..Len(names) |-> NewEnv(names[i])],
          ghost |-> [i \in 1..Len(names) |-> NoGhost],
          raised |-> "ValueError",
          pc |-> "error"]
    ELSE
    LET n == Len(names)
        flat == Flatten(DrawnSketches(P, names, draw), 1)
        sks == [k \in 1..Len(flat) |-> flat[k].sketch]
        ctx == ContextEncode([k \in 1..Len(flat) |-> names[flat[k].q]])
        ske == SketchEncode(sks)
    IN  [heap |-> [i \in 1..n |-> NewEnv(names[i])]
                    \o [k \in 1..Len(flat) |-> NewEnv(names[flat[k].q])],
         active_envs |-> [k \in 1..Len(flat) |-> n + k],
         sketches |-> sks,
         completed_envs |-> <<>>,
         t |-> 0,
         observations_tm1 |-> [k \in 1..Len(flat) |-> ObsOf(NewEnv(names[flat[k].q]))],
         context_encoding |-> IF Len(flat) = 0 THEN <<>> ELSE ctx,
         sketch_encoding |-> IF Len(flat) = 0 THEN <<>> ELSE ske,
         state_tm1 |-> IF Len(flat) = 0 THEN <<>> ELSE InitialState(ctx, ske),
         sample_probs |-> [k \in 1..Len(flat) |-> 0],
         sketch_action_t |-> 0,
         steps |-> <<>>,
         ghost |-> [i \in 1..n |-> NoGhost]
                     \o [k \in 1..Len(flat) |->
                           [sketch |-> flat[k].sketch, ground |-> 0, parent |-> flat[k].q]],
         asked |-> <<PredictorK>>,
         raised |-> "",
         pc |-> IF Len(flat) = 0 THEN "final" ELSE "loop"]

\* lines 267-318: one clone per drawn sketch, and the buffers of the clones
SampleBegin(P, names, draw) ==
    LET n == Len(names)
        flat == Flatten(DrawnSketches(P, names, draw), 1)
        sks == [k \in 1..Len(flat) |-> flat[k].sketch]
        ctx == ContextEncode([k \in 1..Len(flat) |-> names[flat[k].q]])
        ske == SketchEncode(sks)
    IN  [heap |-> [i \in 1..n |-> NewEnv(names[i])]
                    \o [k \in 1..Len(flat) |-> NewEnv(names[flat[k].q])],
         active_envs |-> [k \in 1..Len(flat) |-> n + k],
         sketches |-> sks,
         completed_envs |-> <<>>,
         t |-> 0,
         observations_tm1 |-> [k \in 1..Len(flat) |-> ObsOf(NewEnv(names[flat[k].q]))],
         context_encoding |-> IF Len(flat) = 0 THEN <<>> ELSE ctx,
         sketch_encoding |-> IF Len(flat) = 0 THEN <<>> ELSE ske,
         state_tm1 |-> IF Len(flat) = 0 THEN <<>> ELSE InitialState(ctx, ske),
         sample_probs |-> [k \in 1..Len(flat) |-> 0],
         sketch_action_t |-> 0,
         steps |-> <<>>,
         ghost |-> [i \in 1..n |-> NoGhost]
                     \o [k \in 1..Len(flat) |->
                           [sketch |-> flat[k].sketch, ground |-> 0, parent |-> flat[k].q]],
         asked |-> <<PredictorK>>,
         raised |-> "",
         pc |-> IF Len(flat) = 0 THEN "final" ELSE "loop"]

\* the log-probability sample_action reports for action a of active position i
SampledLogProb(P, S, i, a) ==
    DecScore(P.dec, S.observations_tm1[i], S.state_tm1[i],
             RowOf(S.context_encoding, i), RowOf(S.sketch_encoding, i), a)

\* sample_action without the masked_fill_ of line 922: every action whose
\* probability is not 0 can be drawn, valid or not
SupportUnmasked(P, S, i) ==
    {a \in Actions : SampledLogProb(P, S, i, a) # NegInf}

\* lines 915-933, sample_action: the actions that can be drawn for active
\* position i are the valid actions of its observation whose probability is not 0
Support(P, S, i) ==
    {a \in Range(ValidActions(P.world, S.heap[S.active_envs[i]])) :
        SampledLogProb(P, S, i, a) # NegInf}

\* line 344 without the variable mask: the log-probability of the drawn action is
\* added at every step
AddUnmasked(S, probs, logp) == [i \in 1..Len(probs) |-> Add(probs[i], logp[i])]

\* line 344 with the log-probability taken off: sample_probs -
\* sampled_action_t_prob * variable_mask
AddMaskedSub(S, probs, logp) ==
    [i \in 1..Len(probs) |->
        Add(probs[i],
            IF S.sketch_encoding.var_time_step_mask[i][S.t + 1] = 1 /\ logp[i] # NegInf
            THEN 0 - logp[i] ELSE 0)]

\* lines 343-344: sample_probs + sampled_action_t_prob * variable_mask
AddMasked(S, probs, logp) ==
    [i \in 1..Len(probs) |->
        Add(probs[i],
            IF S.sketch_encoding.var_time_step_mask[i][S.t + 1] = 1 THEN logp[i] ELSE 0)]

\* lines 350-389 with the commented-out `raise RuntimeError()` of line 369 in
\* force: a fixed token whose action is not valid ends the call
SampleOneRaise(P, S, B, probs, sampled, i) ==
    LET sketch == S.sketches[i]
        id == S.active_envs[i]
        env == B.heap[id]
        valid == ValidActions(P.world, env)
    IN  IF ~InRange(sketch, S.t) THEN [B EXCEPT !.raised = "ValueError"]
        ELSE
        LET fixed == ~IsVariableSlot(TokenAt(sketch, S.t))
            sat == IF fixed THEN Lookup(TokenAt(sketch, S.t)) ELSE B.sketch_action_t
            action_t == IF fixed THEN sat ELSE sampled[i]
            B1 == [B EXCEPT !.sketch_action_t = sat]
        IN  IF action_t \in Range(valid)
            THEN LET e == EnvStep(P.world, env, IndexOf(valid, action_t))
                     own == B.ghost[id]
                     B2 == [B1 EXCEPT
                              !.heap[id] = e,
                              !.steps = Append(@, <<id, S.t>>),
                              !.ghost[id].ground =
                                  IF IsVariableSlot(TokenAt(own.sketch, S.t))
                                  THEN Add(@, SampledLogProb(P, S, i, action_t)) ELSE @]
                 IN  IF e.done
                     THEN [B2 EXCEPT !.completed_envs =
                                         Append(@, [env |-> id,
                                                    prob |-> Add(sketch.prob, probs[i])]),
                                     !.has_completed_sample = TRUE]
                     ELSE [B2 EXCEPT !.observations_t = Append(@, ObsOf(e)),
                                     !.new_active_env_pos = Append(@, i),
                                     !.new_active_envs = Append(@, id)]
            ELSE [B1 EXCEPT !.raised = "RuntimeError"]

\* lines 350-389 without the test of line 353: a position whose sketch has no
\* token left is passed over and the call goes on
SampleOneSkipDesync(P, S, B, probs, sampled, i) ==
    LET sketch == S.sketches[i]
        id == S.active_envs[i]
        env == B.heap[id]
        valid == ValidActions(P.world, env)
    IN  IF ~InRange(sketch, S.t) THEN [B EXCEPT !.has_completed_sample = TRUE]
        ELSE
        LET fixed == ~IsVariableSlot(TokenAt(sketch, S.t))
            sat == IF fixed THEN Lookup(TokenAt(sketch, S.t)) ELSE B.sketch_action_t
            action_t == IF fixed THEN sat ELSE sampled[i]
            B1 == [B EXCEPT !.sketch_action_t = sat]
        IN  IF action_t \in Range(valid)
            THEN LET e == EnvStep(P.world, env, IndexOf(valid, action_t))
                     own == B.ghost[id]
                     B2 == [B1 EXCEPT
                              !.heap[id] = e,
                              !.steps = Append(@, <<id, S.t>>),
                              !.ghost[id].ground =
                                  IF IsVariableSlot(TokenAt(own.sketch, S.t))
                                  THEN Add(@, SampledLogProb(P, S, i, action_t)) ELSE @]
                 IN  IF e.done
                     THEN [B2 EXCEPT !.completed_envs =
                                         Append(@, [env |-> id,
                                                    prob |-> Add(sketch.prob, probs[i])]),
                                     !.has_completed_sample = TRUE]
                     ELSE [B2 EXCEPT !.observations_t = Append(@, ObsOf(e)),
                                     !.new_active_env_pos = Append(@, i),
                                     !.new_active_envs = Append(@, id)]
            ELSE IF sat = 0 THEN [B1 EXCEPT !.raised = "UnboundLocalError"]
                 ELSE IF sat \in Range(valid) THEN [B1 EXCEPT !.raised = "AssertionError"]
                 ELSE [B1 EXCEPT !.has_completed_sample = TRUE]

\* lines 350-389 without line 371 (action_t = sketch_action_t): the sampled
\* action is executed at a fixed token too
SampleOneAsSampled(P, S, B, probs, sampled, i) ==
    LET sketch == S.sketches[i]
        id == S.active_envs[i]
        env == B.heap[id]
        valid == ValidActions(P.world, env)
    IN  IF ~InRange(sketch, S.t) THEN [B EXCEPT !.raised = "ValueError"]
        ELSE
        LET fixed == ~IsVariableSlot(TokenAt(sketch, S.t))
            sat == IF fixed THEN Lookup(TokenAt(sketch, S.t)) ELSE B.sketch_action_t
            action_t == sampled[i]
            B1 == [B EXCEPT !.sketch_action_t = sat]
        IN  IF action_t \in Range(valid)
            THEN LET e == EnvStep(P.world, env, IndexOf(valid, action_t))
                     own == B.ghost[id]
                     B2 == [B1 EXCEPT
                              !.heap[id] = e,
                              !.steps = Append(@, <<id, S.t>>),
                              !.ghost[id].ground =
                                  IF IsVariableSlot(TokenAt(own.sketch, S.t))
                                  THEN Add(@, SampledLogProb(P, S, i, action_t)) ELSE @]
                 IN  IF e.done
                     THEN [B2 EXCEPT !.completed_envs =
                                         Append(@, [env |-> id,
                                                    prob |-> Add(sketch.prob, probs[i])]),
                                     !.has_completed_sample = TRUE]
                     ELSE [B2 EXCEPT !.observations_t = Append(@, ObsOf(e)),
                                     !.new_active_env_pos = Append(@, i),
                                     !.new_active_envs = Append(@, id)]
            ELSE IF sat = 0 THEN [B1 EXCEPT !.raised = "UnboundLocalError"]
                 ELSE IF sat \in Range(valid) THEN [B1 EXCEPT !.raised = "AssertionError"]
                 ELSE [B1 EXCEPT !.has_completed_sample = TRUE]

\* lines 350-389 for active position i.  B carries the loop's locals;
\* sketch_action_t is the local of that name, which keeps its value from one
\* position to the next ("unbound" until first assigned).
SampleOne(P, S, B, probs, sampled, i) ==
    LET sketch == S.sketches[i]
        id == S.active_envs[i]
        env == B.heap[id]
        valid == ValidActions(P.world, env)
    IN  IF ~InRange(sketch, S.t) THEN [B EXCEPT !.raised = "ValueError"]
        ELSE
        LET fixed == ~IsVariableSlot(TokenAt(sketch, S.t))
            sat == IF fixed THEN Lookup(TokenAt(sketch, S.t)) ELSE B.sketch_action_t
            action_t == IF fixed THEN sat ELSE sampled[i]
            B1 == [B EXCEPT !.sketch_action_t = sat]
        IN  IF action_t \in Range(valid)
            THEN LET e == EnvStep(P.world, env, IndexOf(valid, action_t))
                     own == B.ghost[id]
                     B2 == [B1 EXCEPT
                              !.heap[id] = e,
                              !.steps = Append(@, <<id, S.t>>),
                              !.ghost[id].ground =
                                  IF IsVariableSlot(TokenAt(own.sketch, S.t))
                                  THEN Add(@, SampledLogProb(P, S, i, action_t)) ELSE @]
                 IN  IF e.done
                     THEN [B2 EXCEPT !.completed_envs =
                                         Append(@, [env |-> id,
                                                    prob |-> Add(sketch.prob, probs[i])]),
                                     !.has_completed_sample = TRUE]
                     ELSE [B2 EXCEPT !.observations_t = Append(@, ObsOf(e)),
                                     !.new_active_env_pos = Append(@, i),
                                     !.new_active_envs = Append(@, id)]
            ELSE IF sat = 0 THEN [B1 EXCEPT !.raised = "UnboundLocalError"]
                 ELSE IF sat \in Range(valid) THEN [B1 EXCEPT !.raised = "AssertionError"]
                 ELSE [B1 EXCEPT !.has_completed_sample = TRUE]

RECURSIVE SampleAll(_, _, _, _, _, _)
SampleAll(P, S, B, probs, sampled, i) ==
    IF i > Len(S.active_envs) \/ B.raised # "" THEN B
    ELSE SampleAll(P, S, SampleOne(P, S, B, probs, sampled, i), probs, sampled, i + 1)

\* lines 320-408 without the break of lines 391-392: the loop goes on with an
\* empty batch when no position is active any more
SampleStepNoBreak(P, S, sampled) ==
    IF S.t >= Len(S.sketch_encoding.var_time_step_mask[1])
    THEN [S EXCEPT !.pc = "error", !.raised = "IndexError"]
    ELSE
    LET n == Len(S.active_envs)
        logp == [i \in 1..n |-> SampledLogProb(P, S, i, sampled[i])]
        probs == AddMasked(S, S.sample_probs, logp)
        state_t == [i \in 1..n |-> NextStateRow(S.state_tm1[i], S.observations_tm1[i])]
        B0 == [heap |-> S.heap, steps |-> S.steps, ghost |-> S.ghost,
               completed_envs |-> S.completed_envs, observations_t |-> <<>>,
               new_active_env_pos |-> <<>>, new_active_envs |-> <<>>,
               has_completed_sample |-> FALSE,
               sketch_action_t |-> S.sketch_action_t, raised |-> ""]
        B == SampleAll(P, S, B0, probs, sampled, 1)
        pos == B.new_active_env_pos
        S1 == [S EXCEPT !.heap = B.heap, !.steps = B.steps, !.ghost = B.ghost,
                        !.completed_envs = B.completed_envs,
                        !.sample_probs = probs,
                        !.sketch_action_t = B.sketch_action_t]
    IN  IF B.raised # "" THEN [S1 EXCEPT !.pc = "error", !.raised = B.raised]
        ELSE IF Len(pos) = 0
             THEN [S1 EXCEPT !.t = S.t + 1, !.observations_tm1 = <<>>,
                             !.active_envs = <<>>, !.sketches = <<>>]
        ELSE LET S2 == [S1 EXCEPT !.t = S.t + 1,
                                  !.observations_tm1 = B.observations_t,
                                  !.active_envs = B.new_active_envs]
             IN  IF B.has_completed_sample
                 THEN [S2 EXCEPT
                         !.context_encoding =
                             ExpandEncoding(S.context_encoding, pos,
                                            {"question_encoding", "question_mask",
                                             "question_encoding_att_linear"}),
                         !.sketch_encoding =
                             ExpandEncoding(S.sketch_encoding, pos,
                                            {"var_time_step_mask", "value"}),
                         !.state_tm1 = Gather(state_t, pos),
                         !.sample_probs = Gather(probs, pos),
                         !.sketches = Gather(S.sketches, pos)]
                 ELSE [S2 EXCEPT !.state_tm1 = state_t]

\* lines 320-408: one iteration of the while loop; sampled is the action drawn
\* for every active position.  sketch_action_t = 0 stands for the unbound local.
SampleStep(P, S, sampled) ==
    IF S.t >= Len(S.sketch_encoding.var_time_step_mask[1])
    THEN [S EXCEPT !.pc = "error", !.raised = "IndexError"]
    ELSE
    LET n == Len(S.active_envs)
        logp == [i \in 1..n |-> SampledLogProb(P, S, i, sampled[i])]
        probs == AddMasked(S, S.sample_probs, logp)
        state_t == [i \in 1..n |-> NextStateRow(S.state_tm1[i], S.observations_tm1[i])]
        B0 == [heap |-> S.heap, steps |-> S.steps, ghost |-> S.ghost,
               completed_envs |-> S.completed_envs, observations_t |-> <<>>,
               new_active_env_pos |-> <<>>, new_active_envs |-> <<>>,
               has_completed_sample |-> FALSE,
               sketch_action_t |-> S.sketch_action_t, raised |-> ""]
        B == SampleAll(P, S, B0, probs, sampled, 1)
        pos == B.new_active_env_pos
        S1 == [S EXCEPT !.heap = B.heap, !.steps = B.steps, !.ghost = B.ghost,
                        !.completed_envs = B.completed_envs,
                        !.sample_probs = probs,
                        !.sketch_action_t = B.sketch_action_t]
    IN  IF B.raised # "" THEN [S1 EXCEPT !.pc = "error", !.raised = B.raised]
        ELSE IF Len(pos) = 0 THEN [S1 EXCEPT !.pc = "final"]
        ELSE LET S2 == [S1 EXCEPT !.t = S.t + 1,
                                  !.observations_tm1 = B.observations_t,
                                  !.active_envs = B.new_active_envs]
             IN  IF B.has_completed_sample
                 THEN [S2 EXCEPT
                         !.context_encoding =
                             ExpandEncoding(S.context_encoding, pos,
                                            {"question_encoding", "question_mask",
                                             "question_encoding_att_linear"}),
                         !.sketch_encoding =
                             ExpandEncoding(S.sketch_encoding, pos,
                                            {"var_time_step_mask", "value"}),
                         !.state_tm1 = Gather(state_t, pos),
                         !.sample_probs = Gather(probs, pos),
                         !.sketches = Gather(S.sketches, pos)]
                 ELSE [S2 EXCEPT !.state_tm1 = state_t]

\* lines 413-422 without the test of line 415: every completed environment
\* becomes a Sample
SampleReturnAll(S) ==
    [kind |-> "list",
     val |-> [k \in 1..Len(S.completed_envs) |->
                Sample(S.heap, S.completed_envs[k].env, S.completed_envs[k].prob)]]

\* lines 413-422: the completed environments that did not fail, as Samples
SampleReturn(S) ==
    LET Ok(ce) == ~S.heap[ce.env].error
        kept == SelectSeq(S.completed_envs, Ok)
    IN  [kind |-> "list",
         val |-> [k \in 1..Len(kept) |-> Sample(S.heap, kept[k].env, kept[k].prob)]]

(***************************************************************************)
(* compute_trajectory_actions_prob.  A trajectory is a recorded program:   *)
(* the question it answers, its actions, the template token of every       *)
(* action (its sketch, Sketch(traj.program)) and the prior log-probability *)
(* the sketch predictor gives that sketch.                                 *)
(***************************************************************************)
Traj(name, actions, tokens, prior) ==
    [name |-> name, actions |-> actions, tokens |-> tokens, prior |-> prior]

\* the trajectories a batch is made of
Trajectories ==
    { Traj("q1", <<1>>, <<"v">>, -1),
      Traj("q1", <<1, 2, 2>>, <<"A", "v", "B">>, -1),
      Traj("q1", <<2, 1>>, <<"v", "v">>, -2),
      Traj("q2", <<3, 1>>, <<"C", "v">>, 0),
      Traj("q2", <<2, 1, 3>>, <<"v", "A", "v">>, -1) }

\* the decoders the scorer is run with: every score they give is finite
TrajDecoders == {1, 3}

\* line 89: batched_observation_seq.read_ind.size(1), the length of the longest
\* trajectory of the batch
MaxTimeStep(trajs) ==
    CHOOSE n \in {Len(trajs[i].actions) : i \in 1..Len(trajs)} :
        \A i \in 1..Len(trajs) : Len(trajs[i].actions) <= n

\* line 92, batched_observation_seq.slice(t): per trajectory the observation
\* recorded before its action t, or the padding observation past its end
ObsSlice(trajs, tt) ==
    [i \in 1..Len(trajs) |->
        IF tt < Len(trajs[i].actions)
        THEN [name |-> trajs[i].name, prog |-> SubSeq(trajs[i].actions, 1, tt)]
        ELSE EmptyOb]

\* tgt_action_ids: the recorded action, the padding id (the first action id)
\* past the end of the trajectory
TgtActionId(tr, tt) == IF tt < Len(tr.actions) THEN tr.actions[tt + 1] ELSE 1

\* tgt_action_mask: 1 at the steps of the trajectory, 0 at the padded steps
TgtActionMask(tr, tt) == IF tt < Len(tr.actions) THEN 1 ELSE 0

\* a log-probability that is not multiplied by its mask
MaskedOff(x, m) == x

\* a log-probability times a 0/1 mask
Masked(x, m) == IF m = 1 THEN x ELSE 0

\* lines 64-90: encodings, sketches and the initial decoder state
ScoreBegin(trajs) ==
    LET ctx == ContextEncode([i \in 1..Len(trajs) |-> trajs[i].name])
        sks == [i \in 1..Len(trajs) |-> Sk(trajs[i].tokens, trajs[i].prior)]
        ske == SketchEncode(sks)
    IN  [context_encoding |-> ctx,
         sketches |-> sks,
         sketch_encoding |-> ske,
         state_tm1 |-> InitialState(ctx, ske),
         action_logits |-> <<>>,
         t |-> 0,
         raised |-> "",
         pc |-> "loop"]

\* lines 91-104: one iteration of the loop over the time steps
ScoreStep(d, S, trajs) ==
    LET obs_slice_t == ObsSlice(trajs, S.t)
        mem_logits == [i \in 1..Len(trajs) |->
                         [a \in Actions |->
                             DecScore(d, obs_slice_t[i], S.state_tm1[i],
                                      RowOf(S.context_encoding, i),
                                      RowOf(S.sketch_encoding, i), a)]]
        state_t == [i \in 1..Len(trajs) |-> NextStateRow(S.state_tm1[i], obs_slice_t[i])]
    IN  [S EXCEPT !.action_logits = Append(@, mem_logits),
                  !.state_tm1 = state_t,
                  !.t = S.t + 1,
                  !.pc = IF S.t + 1 >= MaxTimeStep(trajs) THEN "final" ELSE "loop"]

RECURSIVE SumFrom(_, _)
\* row.sum(dim=-1)
SumFrom(row, k) == IF k > Len(row) THEN 0 ELSE row[k] + SumFrom(row, k + 1)

\* lines 106-120 without the variable mask of lines 116-117
ScoreReturnNoVarMask(S, trajs) ==
    LET tgt_action_log_probs ==
            [i \in 1..Len(trajs) |->
                [k \in 1..Len(S.action_logits) |->
                    Masked(S.action_logits[k][i][TgtActionId(trajs[i], k - 1)],
                           TgtActionMask(trajs[i], k - 1))]]
    IN  [kind |-> "probs",
         val |-> [i \in 1..Len(trajs) |->
                    S.sketches[i].prob + SumFrom(tgt_action_log_probs[i], 1)]]

\* lines 106-134: gather the score of the recorded action, mask the padded steps,
\* mask the steps that are not variable slots, sum, add the sketch prior
ScoreReturn(S, trajs) ==
    LET tgt_action_log_probs ==
            [i \in 1..Len(trajs) |->
                [k \in 1..Len(S.action_logits) |->
                    Masked(S.action_logits[k][i][TgtActionId(trajs[i], k - 1)],
                           TgtActionMask(trajs[i], k - 1))]]
        variable_ground_mask == S.sketch_encoding.var_time_step_mask
        tgt_variable_grounding_prob ==
            [i \in 1..Len(trajs) |->
                [k \in 1..Len(S.action_logits) |->
                    Masked(tgt_action_log_probs[i][k], variable_ground_mask[i][k])]]
    IN  [kind |-> "probs",
         val |-> [i \in 1..Len(trajs) |->
                    S.sketches[i].prob + SumFrom(tgt_variable_grounding_prob[i], 1)]]

(***************************************************************************)
(* sample_gpu.  Every environment is cloned sample_num times; the clones   *)
(* are the rows of the batch, and none leaves it: active_env_ids (kept in  *)
(* active_envs, as the ascending list of the active rows) says which rows  *)
(* are still stepped.                                                       *)
(***************************************************************************)
\* the decoders sample_gpu is run with
GpuDecoders == {1, 3}

\* the environment of row i
GpuEnv(S, i) == Len(S.heap) - Len(S.sample_probs) + i

\* lines 186-202
GpuBegin(P, names) ==
    LET n == Len(names)
        rows == n * P.sample_num
        q(k) == ((k - 1) \div P.sample_num) + 1
        ctx == ContextEncode([k \in 1..rows |-> names[q(k)]])
    IN  [heap |-> [i \in 1..n |-> NewEnv(names[i])]
                    \o [k \in 1..rows |-> NewEnv(names[q(k)])],
         active_envs |-> [k \in 1..rows |-> k],
         t |-> 0,
         observations_tm1 |-> [k \in 1..rows |-> ObsOf(NewEnv(names[q(k)]))],
         context_encoding |-> ctx,
         state_tm1 |-> BsInitialState(ctx),
         sample_probs |-> [k \in 1..rows |-> 0],
         steps |-> <<>>,
         ghost |-> [i \in 1..n |-> NoGhost]
                     \o [k \in 1..rows |->
                           [sketch |-> Sk(<<>>, 0), ground |-> 0, parent |-> q(k)]],
         raised |-> "",
         pc |-> "loop"]

\* lines 205-209: the log-probability sample_action reports for action a of row i
GpuLogProb(P, S, i, a) ==
    DecScore(P.dec, S.observations_tm1[i], S.state_tm1[i],
             RowOf(S.context_encoding, i), NoSketchRow, a)

\* lines 915-933, sample_action: the actions that can be drawn for row i are the
\* actions its observation marks valid whose probability is not 0
GpuSupport(P, S, i) ==
    {a \in ObsValid(P.world, S.observations_tm1[i]) : GpuLogProb(P, S, i, a) # NegInf}

RECURSIVE GpuEnvs(_, _, _, _, _)
\* lines 213-225: the rows in order; an active row executes its drawn action, and
\* stays active unless its program is done; every other row keeps its observation
GpuEnvs(P, S, B, sampled, i) ==
    IF i > Len(S.sample_probs) \/ B.raised # "" THEN B
    ELSE IF i \in Range(S.active_envs)
    THEN LET id == GpuEnv(S, i)
             valid == ValidActions(P.world, B.heap[id])
         IN  IF sampled[i] \notin Range(valid) THEN [B EXCEPT !.raised = "ValueError"]
             ELSE
             LET e == EnvStep(P.world, B.heap[id], IndexOf(valid, sampled[i]))
                 B1 == [B EXCEPT
                          !.heap[id] = e,
                          !.steps = Append(@, <<id, S.t>>),
                          !.ghost[id].ground = Add(@, GpuLogProb(P, S, i, sampled[i])),
                          !.observations_t =
                              Append(@, IF e.done THEN S.observations_tm1[i] ELSE ObsOf(e)),
                          !.new_active_env_ids = IF e.done THEN @ ELSE Append(@, i)]
             IN  GpuEnvs(P, S, B1, sampled, i + 1)
    ELSE GpuEnvs(P, S, [B EXCEPT !.observations_t = Append(@, S.observations_tm1[i])],
                 sampled, i + 1)

\* lines 204-238: one iteration of the while loop; sampled is what sample_action
\* drew, one action per row
GpuStep(P, S, sampled) ==
    LET rows == Len(S.sample_probs)
        sampled_action_t_prob == [i \in 1..rows |-> GpuLogProb(P, S, i, sampled[i])]
        state_t == [i \in 1..rows |-> NextStateRow(S.state_tm1[i], S.observations_tm1[i])]
        B0 == [heap |-> S.heap, steps |-> S.steps, ghost |-> S.ghost,
               observations_t |-> <<>>, new_active_env_ids |-> <<>>, raised |-> ""]
        B == GpuEnvs(P, S, B0, sampled, 1)
        S1 == [S EXCEPT !.heap = B.heap, !.steps = B.steps, !.ghost = B.ghost]
    IN  IF B.raised # "" THEN [S1 EXCEPT !.pc = "error", !.raised = B.raised]
        ELSE
        LET S2 == [S1 EXCEPT !.sample_probs =
                                [i \in 1..rows |->
                                    Add(S.sample_probs[i], sampled_action_t_prob[i])]]
        IN  IF Len(B.new_active_env_ids) = 0 THEN [S2 EXCEPT !.pc = "final"]
            ELSE [S2 EXCEPT !.observations_tm1 = B.observations_t,
                            !.state_tm1 = state_t,
                            !.active_envs = B.new_active_env_ids,
                            !.t = S.t + 1]

\* lines 240-246: a Sample per environment that did not fail
GpuReturn(S) ==
    LET rows == [i \in 1..Len(S.sample_probs) |-> i]
        Ok(i) == ~S.heap[GpuEnv(S, i)].error
        kept == SelectSeq(rows, Ok)
    IN  [kind |-> "list",
         val |-> [k \in 1..Len(kept) |->
                    Sample(S.heap, GpuEnv(S, kept[k]), S.sample_probs[kept[k]])]]

(***************************************************************************)
(* decode_examples.                                                        *)
(***************************************************************************)
RECURSIVE NbsRun(_, _)
\* new_beam_search from the locals S to the end of its while loop (the locals
\* after a step are bound as a value, so that they are computed once)
NbsRun(P, S) ==
    IF S.pc = "loop"
    THEN CHOOSE E \in {NbsRun(P, S1) : S1 \in {NbsStep(P, S)}} : TRUE
    ELSE S

\* nn_util.batch_iter(environments, batch_size, shuffle=False) without its last,
\* shorter batch
BatchNumFloor(envs, bs) == Len(envs) \div bs

\* nn_util.batch_iter(environments, batch_size, shuffle=False): the number of
\* batches it yields
BatchNum(envs, bs) == (Len(envs) + bs - 1) \div bs

\* its i-th batch: consecutive slices of batch_size, the last one shorter
BatchIter(envs, bs, i) == SubSeq(envs, (i - 1) * bs + 1, Min(i * bs, Len(envs)))

\* line 886: config.get('sketch_constrained_decoding_num_sketch', 5)
NumSketch == 5

\* lines 880-889: before the first batch
DecodeBegin(P) ==
    [decode_results |-> <<>>,
     batch_id |-> 0,
     pc |-> IF BatchNum(P.environments, P.batch_size) = 0 THEN "final" ELSE "loop"]

\* lines 890-911, one iteration of the for loop: the constraint is built from the
\* predictor's sketches when the config asks for it, new_beam_search is run on the
\* batch, and the values of the dict it returns are appended to decode_results
DecodeStep(P, S) ==
    LET batched_envs == BatchIter(P.environments, P.batch_size, S.batch_id + 1)
        cs == IF P.use_sketch_constrained_decoding
              THEN Dict([nm \in Range(batched_envs) |-> P.cands[nm]])
              ELSE NoConstraint
        P1 == [P EXCEPT !.constraint_sketches = cs]
        \* lines 909-911, E being the locals of new_beam_search at its end
        Extend(E) ==
            LET E1 == [k \in DOMAIN E \cup {"constraint_sketches"} |->
                         IF k = "constraint_sketches" THEN cs
                         ELSE IF k = "asked"
                              THEN IF P.use_sketch_constrained_decoding
                                   THEN <<NumSketch>> \o E.asked ELSE E.asked
                              ELSE E[k]]
            IN  IF E.pc = "error" THEN E1
                ELSE
                LET batch_decode_result == NbsReturn(P1, E, batched_envs, FALSE).val
                    values == [i \in 1..Len(batched_envs) |->
                                 batch_decode_result[batched_envs[i]]]
                IN  [k \in DOMAIN E1 \cup {"decode_results", "batch_id"} |->
                       IF k = "decode_results" THEN S.decode_results \o values
                       ELSE IF k = "batch_id" THEN S.batch_id + 1
                       ELSE IF k = "pc"
                            THEN IF S.batch_id + 1 < BatchNum(P.environments, P.batch_size)
                                 THEN "loop" ELSE "final"
                       ELSE E1[k]]
    IN  CHOOSE R \in {Extend(E) : E \in {NbsRun(P1, S0) :
                                          S0 \in {NbsBegin(P1, batched_envs)}}} : TRUE

\* line 913
DecodeReturn(S) == [kind |-> "list", val |-> S.decode_results]

(***************************************************************************)
(* The state machine.                                                      *)
(***************************************************************************)
\* the arguments of the call
Args == [beam_size |-> beam_size, sample_num |-> sample_num, force |-> force,
         world |-> world, cands |-> cands, constraint_sketches |-> constraint_sketches,
         dec |-> dec, environments |-> environments, batch_size |-> batch_size,
         use_sketch_constrained_decoding |-> use_sketch_constrained_decoding]

\* the locals of the call
Cur == [heap |-> heap, beams |-> beams, completed_hyps |-> completed_hyps, t |-> t,
        observations_tm1 |-> observations_tm1, context_encoding |-> context_encoding,
        context_encoding_expanded |-> context_encoding_expanded,
        max_live_hyp_num |-> max_live_hyp_num, live_beam_names |-> live_beam_names,
        sketch_encoding |-> sketch_encoding, state_tm1 |-> state_tm1,
        hyp_scores_tm1 |-> hyp_scores_tm1, active_envs |-> active_envs,
        sketches |-> sketches, sample_probs |-> sample_probs,
        sketch_action_t |-> sketch_action_t, completed_envs |-> completed_envs,
        action_logits |-> action_logits, steps |-> steps, ghost |-> ghost, hist |-> hist,
        asked |-> asked, decode_results |-> decode_results, batch_id |-> batch_id,
        raised |-> raised, pc |-> pc]

\* the locals become those of S (a local S does not name keeps its value)
Install(S0) ==
    LET S == [k \in DOMAIN Cur |-> IF k \in DOMAIN S0 THEN S0[k] ELSE Cur[k]]
    IN  /\ heap' = S.heap
        /\ beams' = S.beams
        /\ completed_hyps' = S.completed_hyps
        /\ t' = S.t
        /\ observations_tm1' = S.observations_tm1
        /\ context_encoding' = S.context_encoding
        /\ context_encoding_expanded' = S.context_encoding_expanded
        /\ max_live_hyp_num' = S.max_live_hyp_num
        /\ live_beam_names' = S.live_beam_names
        /\ sketch_encoding' = S.sketch_encoding
        /\ state_tm1' = S.state_tm1
        /\ hyp_scores_tm1' = S.hyp_scores_tm1
        /\ active_envs' = S.active_envs
        /\ sketches' = S.sketches
        /\ sample_probs' = S.sample_probs
        /\ sketch_action_t' = S.sketch_action_t
        /\ completed_envs' = S.completed_envs
        /\ action_logits' = S.action_logits
        /\ steps' = S.steps
        /\ ghost' = S.ghost
        /\ hist' = S.hist
        /\ asked' = S.asked
        /\ decode_results' = S.decode_results
        /\ batch_id' = S.batch_id
        /\ raised' = S.raised
        /\ pc' = S.pc

NoResult == [kind |-> "none"]

\* the arguments of decode_examples, when another entry point is called
NoDecode ==
    /\ environments = <<>>
    /\ batch_size = 1
    /\ use_sketch_constrained_decoding = FALSE

\* before the call: the caller's environments exist, nothing else does
NotStarted ==
    /\ pc = "start"
    /\ raised = ""
    /\ result = NoResult
    /\ return_list = FALSE
    /\ heap = [i \in 1..Len(EnvNames) |-> NewEnv(EnvNames[i])]
    /\ t = 0
    /\ beams = <<>>
    /\ completed_hyps = <<>>
    /\ observations_tm1 = <<>>
    /\ state_tm1 = <<>>
    /\ hyp_scores_tm1 = <<>>
    /\ context_encoding = <<>>
    /\ context_encoding_expanded = <<>>
    /\ max_live_hyp_num = 1
    /\ live_beam_names = <<>>
    /\ sketch_encoding = <<>>
    /\ active_envs = <<>>
    /\ sketches = <<>>
    /\ sample_probs = <<>>
    /\ sketch_action_t = 0
    /\ completed_envs = <<>>
    /\ action_logits = <<>>
    /\ steps = <<>>
    /\ ghost = [i \in 1..Len(EnvNames) |-> NoGhost]
    /\ hist = <<>>
    /\ asked = <<>>
    /\ decode_results = <<>>
    /\ batch_id = 0

InitNbs ==
    /\ algo = "nbs"
    /\ beam_size \in 1..MaxBeam
    /\ sample_num = 0
    /\ force \in BOOLEAN
    /\ world \in Worlds
    /\ cands \in CandidateSketches
    /\ constraint_sketches = NoConstraint
    /\ dec \in Decoders
    /\ trajectories = <<>>
    /\ NoDecode
    /\ NotStarted

\* new_beam_search called with or without constraint_sketches
InitNbsConstrained ==
    /\ algo = "nbs"
    /\ beam_size \in 1..MaxBeam
    /\ sample_num = 0
    /\ force \in BOOLEAN
    /\ world \in Worlds
    /\ cands \in ConstrainedCands
    /\ constraint_sketches \in ConstraintDicts \cup {NoConstraint}
    /\ dec \in Decoders
    /\ trajectories = <<>>
    /\ NoDecode
    /\ NotStarted

InitSample ==
    /\ algo = "sample"
    /\ beam_size = 1
    /\ sample_num \in 0..MaxSamples
    /\ force = FALSE
    /\ world \in Worlds
    /\ cands \in SampleCandidateSketches
    /\ sample_num * Cardinality({nm \in Range(EnvNames) : Len(cands[nm]) > 0}) <= MaxClones
    /\ constraint_sketches = NoConstraint
    /\ dec \in Decoders
    /\ trajectories = <<>>
    /\ NoDecode
    /\ NotStarted

\* sample called with a dict as constraint_sketches
InitSampleConstrained ==
    /\ algo = "sample"
    /\ beam_size = 1
    /\ sample_num \in 0..MaxSamples
    /\ force = FALSE
    /\ world \in Worlds
    /\ cands \in SampleCandidateSketches
    /\ sample_num * Cardinality({nm \in Range(EnvNames) : Len(cands[nm]) > 0}) <= MaxClones
    /\ constraint_sketches \in {cs \in ConstraintDicts : "q2" \in DOMAIN cs.items}
    /\ dec \in Decoders
    /\ trajectories = <<>>
    /\ NoDecode
    /\ NotStarted

InitBs ==
    /\ algo = "bs"
    /\ beam_size \in 1..MaxBeam
    /\ sample_num = 0
    /\ force = FALSE
    /\ world \in BsWorlds
    /\ cands = [nm \in Range(EnvNames) |-> <<>>]
    /\ constraint_sketches = NoConstraint
    /\ dec \in BsDecoders
    /\ trajectories = <<>>
    /\ NoDecode
    /\ NotStarted

InitScore ==
    /\ algo = "score"
    /\ beam_size = 1
    /\ sample_num = 0
    /\ force = FALSE
    /\ world = [acts |-> <<1, 2>>, bad |-> 0, fin |-> 0, plen |-> MaxProgLen]
    /\ cands = [nm \in Range(EnvNames) |-> <<>>]
    /\ constraint_sketches = NoConstraint
    /\ dec \in TrajDecoders
    /\ trajectories \in UNION {[1..n -> Trajectories] : n \in 1..MaxBatch}
    /\ NoDecode
    /\ NotStarted

InitGpu ==
    /\ algo = "gpu"
    /\ beam_size = 1
    /\ sample_num \in 1..MaxSamples
    /\ sample_num * Len(EnvNames) <= MaxClones
    /\ force = FALSE
    /\ world \in Worlds
    /\ cands = [nm \in Range(EnvNames) |-> <<>>]
    /\ constraint_sketches = NoConstraint
    /\ dec \in GpuDecoders
    /\ trajectories = <<>>
    /\ NoDecode
    /\ NotStarted

\* the candidate sketches decode_examples is run with
DecodeCands ==
    {c \in CandidateSketches :
        c["q1"] \in { <<>>, << Sk(<<"A", "v", "B">>, -1) >>,
                      << Sk(<<"v", "v">>, -1), Sk(<<"v", "C">>, -1) >> }}

\* the interpreters decode_examples is run on
DecodeWorlds == {w \in Worlds : w.plen = MaxProgLen /\ w.bad = 1}

\* the environment lists decode_examples is given: the names of a batch differ
DecodeInputs(bs) ==
    {e \in UNION {[1..n -> Range(EnvNames)] : n \in 0..MaxEnvs} :
        \A j, k \in 1..Len(e) :
            (j < k /\ (j - 1) \div bs = (k - 1) \div bs) => e[j] # e[k]}

InitDecode ==
    /\ algo = "decode"
    /\ beam_size \in 1..MaxBeam
    /\ sample_num = 0
    /\ force = FALSE
    /\ world \in DecodeWorlds
    /\ cands \in DecodeCands
    /\ constraint_sketches = NoConstraint
    /\ dec \in Decoders
    /\ trajectories = <<>>
    /\ batch_size \in 1..MaxBatchSize
    /\ environments \in DecodeInputs(batch_size)
    /\ use_sketch_constrained_decoding \in BOOLEAN
    /\ NotStarted

\* every entry point (sample called with the argument constraint_sketches, which
\* it never reads, is InitSampleConstrained)
Init ==
    \/ InitNbs \/ InitNbsConstrained
    \/ InitSample
    \/ InitBs
    \/ InitScore
    \/ InitGpu
    \/ InitDecode

\* new_beam_search is called: lines 424-532
NbsCall ==
    /\ algo = "nbs" /\ pc = "start"
    /\ Install(NbsBegin(Args, EnvNames))
    /\ UNCHANGED <<inputs, return_list, result>>

\* one iteration of its while loop: lines 534-729
NbsLoop ==
    /\ algo = "nbs" /\ pc = "loop"
    /\ Install(NbsStep(Args, Cur))
    /\ UNCHANGED <<inputs, return_list, result>>

\* it returns: lines 731-745
NbsDone ==
    /\ algo = "nbs" /\ pc = "final"
    /\ \E rl \in BOOLEAN :
         /\ return_list' = rl
         /\ result' = NbsReturn(Args, Cur, EnvNames, rl)
    /\ pc' = "done"
    /\ UNCHANGED <<inputs, locals, raised>>

\* sample without the test of line 252: a call with sample_num = 0 goes through
\* lines 255-303 like any other
SampleNothingLate ==
    /\ algo = "sample" /\ pc = "start" /\ sample_num = 0
    /\ \E draw \in Draws(Args, EnvNames) : Install(SampleBegin(Args, EnvNames, draw))
    /\ UNCHANGED <<inputs, return_list, result>>

\* sample is called with sample_num = 0: lines 252-253
SampleNothing ==
    /\ algo = "sample" /\ pc = "start" /\ sample_num = 0
    /\ result' = [kind |-> "list", val |-> <<>>]
    /\ pc' = "done"
    /\ UNCHANGED <<inputs, locals, raised, return_list>>

\* sample is called: lines 255-318
SampleCall ==
    /\ algo = "sample" /\ pc = "start" /\ sample_num # 0
    /\ \E draw \in Draws(Args, EnvNames) : Install(SampleBegin(Args, EnvNames, draw))
    /\ UNCHANGED <<inputs, return_list, result>>

\* one iteration of its while loop: lines 320-408
SampleLoop ==
    /\ algo = "sample" /\ pc = "loop"
    /\ \E sampled \in [1..Len(active_envs) -> Actions] :
         /\ \A i \in 1..Len(active_envs) : sampled[i] \in Support(Args, Cur, i)
         /\ Install(SampleStep(Args, Cur, sampled))
    /\ UNCHANGED <<inputs, return_list, result>>

\* it returns: lines 413-422 (and line 303)
SampleDone ==
    /\ algo = "sample" /\ pc = "final"
    /\ result' = SampleReturn(Cur)
    /\ pc' = "done"
    /\ UNCHANGED <<inputs, locals, raised, return_list>>

\* beam_search is called: lines 747-767
BsCall ==
    /\ algo = "bs" /\ pc = "start"
    /\ Install(BsBegin(Args, EnvNames))
    /\ UNCHANGED <<inputs, return_list, result>>

\* one iteration of its while loop: lines 785-870
BsLoop ==
    /\ algo = "bs" /\ pc = "loop"
    /\ \E top \in TopKs(Args, Cur) : Install(BsStep(Args, Cur, EnvNames, top))
    /\ UNCHANGED <<inputs, return_list, result>>

\* it returns: lines 872-877
BsDone ==
    /\ algo = "bs" /\ pc = "final"
    /\ result' = BsReturn(Args, Cur, EnvNames)
    /\ pc' = "done"
    /\ UNCHANGED <<inputs, locals, raised, return_list>>

\* compute_trajectory_actions_prob is called: lines 63-90
ScoreCall ==
    /\ algo = "score" /\ pc = "start"
    /\ Install(ScoreBegin(trajectories))
    /\ UNCHANGED <<inputs, return_list, result>>

\* one iteration of its loop: lines 91-104
ScoreLoop ==
    /\ algo = "score" /\ pc = "loop"
    /\ Install(ScoreStep(dec, Cur, trajectories))
    /\ UNCHANGED <<inputs, return_list, result>>

\* it returns: lines 106-134
ScoreDone ==
    /\ algo = "score" /\ pc = "final"
    /\ result' = ScoreReturn(Cur, trajectories)
    /\ pc' = "done"
    /\ UNCHANGED <<inputs, locals, raised, return_list>>

\* sample_gpu is called: lines 181-202
GpuCall ==
    /\ algo = "gpu" /\ pc = "start"
    /\ Install(GpuBegin(Args, EnvNames))
    /\ UNCHANGED <<inputs, return_list, result>>

\* one iteration of its while loop: lines 203-238
GpuLoop ==
    /\ algo = "gpu" /\ pc = "loop"
    /\ \E sampled \in [1..Len(sample_probs) -> Actions] :
         /\ \A i \in 1..Len(sample_probs) : sampled[i] \in GpuSupport(Args, Cur, i)
         /\ Install(GpuStep(Args, Cur, sampled))
    /\ UNCHANGED <<inputs, return_list, result>>

\* it returns: lines 240-246
GpuDone ==
    /\ algo = "gpu" /\ pc = "final"
    /\ result' = GpuReturn(Cur)
    /\ pc' = "done"
    /\ UNCHANGED <<inputs, locals, raised, return_list>>

\* decode_examples is called: lines 879-889
DecodeCall ==
    /\ algo = "decode" /\ pc = "start"
    /\ Install(DecodeBegin(Args))
    /\ UNCHANGED <<inputs, return_list, result>>

\* one iteration of its for loop: lines 890-911
DecodeBatch ==
    /\ algo = "decode" /\ pc = "loop"
    /\ \E S \in {DecodeStep(Args, Cur)} :
          /\ Install(S)
          /\ constraint_sketches' = S.constraint_sketches
    /\ UNCHANGED <<algo, beam_size, sample_num, force, world, cands, dec, trajectories,
                   decode_inputs, return_list, result>>

\* it returns: line 913
DecodeDone ==
    /\ algo = "decode" /\ pc = "final"
    /\ result' = DecodeReturn(Cur)
    /\ pc' = "done"
    /\ UNCHANGED <<inputs, locals, raised, return_list>>

NextNbs == NbsCall \/ NbsLoop \/ NbsDone

NextSample == SampleNothing \/ SampleCall \/ SampleLoop \/ SampleDone

NextBs == BsCall \/ BsLoop \/ BsDone

NextScore == ScoreCall \/ ScoreLoop \/ ScoreDone

NextGpu == GpuCall \/ GpuLoop \/ GpuDone

NextDecode == DecodeCall \/ DecodeBatch \/ DecodeDone

Next == NextNbs \/ NextSample \/ NextBs \/ NextScore \/ NextGpu \/ NextDecode

Spec == Init /\ [][Next]_vars

SpecNbs == InitNbs /\ [][NextNbs]_vars

SpecSample == InitSample /\ [][NextSample]_vars

SpecBs == InitBs /\ [][NextBs]_vars

SpecScore == InitScore /\ [][NextScore]_vars

SpecGpu == InitGpu /\ [][NextGpu]_vars

SpecDecode == InitDecode /\ [][NextDecode]_vars

\* new_beam_search with the argument constraint_sketches
SpecConstrained == InitNbsConstrained /\ [][NextNbs]_vars

\* sample with the argument constraint_sketches
SpecSampleConstrained == InitSampleConstrained /\ [][NextSample]_vars

\* the two beam searches
SpecBeams == (InitNbs \/ InitBs) /\ [][NextNbs \/ NextBs]_vars

\* the two sketch-guided searches
SpecSketch == (InitNbs \/ InitSample) /\ [][NextNbs \/ NextSample]_vars

\* a step of a running call, as it shows on the position in the code and on the
\* time step: the call is entered, an iteration of the loop ends (the loop goes
\* on at the next time step, exits or raises), or the call returns
Advance ==
    /\ pc \in {"start", "loop", "final"}
    /\ pc' \in {"loop", "final", "done", "error"}
    /\ t' \in {t, t + 1}

\* the two sketch-guided searches, run to their end: a call that has not returned
\* or raised does not stop (Python runs the body of the function on)
SpecSketchFair == SpecSketch /\ WF_<<pc, t>>(Advance)

(***************************************************************************)
(* Properties.                                                             *)
(***************************************************************************)
\* a returned Sample was read from environment src, which is a finished program of
\* question nm that did not fail
FromFinished(smp, nm) ==
    LET e == heap[smp.trajectory.src]
    IN  /\ e.done /\ ~e.error
        /\ e.name = nm
        /\ smp.trajectory.name = nm
        /\ smp.trajectory.program = e.prog

\* C1: new_beam_search with return_list=False and beam_search return, for every
\* question, at most beam_size results, sorted by descending score, each read from
\* an environment that finished without error; whatever the flags.
C1_RankedResults ==
    (pc = "done" /\ algo \in {"nbs", "bs"} /\ result.kind = "dict") =>
        \A nm \in Range(EnvNames) :
            LET res == result.val[nm]
            IN  /\ Len(res) <= beam_size
                /\ \A i, j \in 1..Len(res) : i < j => res[i].prob >= res[j].prob
                /\ \A i \in 1..Len(res) : FromFinished(res[i], nm)

\* C1, its case: new_beam_search with force_sketch_coverage returned beam_size
\* results of different scores for a question whose completed pool was larger,
\* and one of its programs failed
C1_Witness ==
    /\ pc = "done" /\ algo = "nbs" /\ force /\ result.kind = "dict"
    /\ \E nm \in Range(EnvNames) :
          /\ Len(result.val[nm]) = beam_size
          /\ beam_size > 1
          /\ Len(completed_hyps[nm]) > beam_size
          /\ result.val[nm][1].prob > result.val[nm][2].prob
          /\ \E id \in 1..Len(heap) : heap[id].name = nm /\ heap[id].error

\* C2 as stated: in new_beam_search without force_sketch_coverage, in every state
\* of the search, the initial beam included, each question's active beam holds at
\* most beam_size hypotheses.
C2_BeamWithinWidthAlways ==
    (algo = "nbs" /\ ~force) =>
        \A b \in 1..Len(beams) : Len(beams[b].hyps) <= beam_size

\* C2, amended: in new_beam_search without force_sketch_coverage, after every
\* step each question's active beam holds at most beam_size hypotheses (the
\* initial beam holds one hypothesis per candidate sketch, whatever beam_size is).
C2_BeamWithinWidthAfterStep ==
    (algo = "nbs" /\ ~force /\ t >= 1) =>
        \A b \in 1..Len(beams) : Len(beams[b].hyps) <= beam_size

\* C2, its case: a step pruned a pool larger than beam_size down to a full beam
C2_Witness ==
    /\ algo = "nbs" /\ ~force /\ pc = "loop" /\ t >= 1
    /\ \E b \in 1..Len(beams) :
          /\ Len(beams[b].hyps) = beam_size
          /\ Len(hist[beams[b].name].pool) > beam_size

\* C3: in new_beam_search with force_sketch_coverage, after every step, each
\* question's new beam holds at most beam_size hypotheses plus the number of
\* sketches of its prior beam that were still uncovered when the first beam_size
\* pool entries had been walked.
C3_ForcedBeamBound ==
    (algo = "nbs" /\ force /\ pc = "loop" /\ t >= 1) =>
        \A b \in 1..Len(beams) :
            Len(beams[b].hyps) <= beam_size + Cardinality(hist[beams[b].name].uncov)

\* C3, its case: a step kept more than beam_size hypotheses for a question, as
\* many as the bound allows
C3_Witness ==
    /\ algo = "nbs" /\ force /\ pc = "loop" /\ t >= 1
    /\ \E b \in 1..Len(beams) :
          /\ Len(beams[b].hyps) > beam_size
          /\ Len(beams[b].hyps) = beam_size + Cardinality(hist[beams[b].name].uncov)

\* the beam a step left for a question (none when the step ended the search)
NewBeamOf(name) == IF pc = "loop" THEN BeamOf(beams, name) ELSE <<>>

\* C4: in new_beam_search with force_sketch_coverage, every sketch of a
\* question's beam that has a candidate continuation whose execution does not end
\* in error is, after the step, the sketch of a hypothesis of the new beam or of
\* the completed pool.
C4_SketchCoverage ==
    (algo = "nbs" /\ force /\ pc \in {"loop", "final"}) =>
        \A nm \in DOMAIN hist :
            hist[nm].live =>
                \A k \in 1..Len(hist[nm].prior) :
                    LET sk == hist[nm].prior[k].sketch
                        pool == hist[nm].pool
                        Continues(c) ==
                            /\ c.kind = "cand" /\ SketchEq(c.sketch, sk)
                            /\ ~EnvStep(world, heap[c.prev_hyp_env], c.rel_action_id).error
                    IN  (\E i \in 1..Len(pool) : Continues(pool[i])) =>
                            \/ \E j \in 1..Len(NewBeamOf(nm)) :
                                   SketchEq(NewBeamOf(nm)[j].sketch, sk)
                            \/ \E j \in 1..Len(completed_hyps[nm]) :
                                   SketchEq(completed_hyps[nm][j].sketch, sk)

\* the environments of the search: every environment but the caller's
Clones == (Len(EnvNames) + 1)..Len(heap)

\* the token the sketch has at Python position tt is a fixed token whose action
\* is not a valid action of env
StuckToken(sketch, env, tt) ==
    /\ InRange(sketch, tt)
    /\ ~IsVariableSlot(TokenAt(sketch, tt))
    /\ Lookup(TokenAt(sketch, tt)) \notin Range(ValidActions(world, env))

\* environment id cannot go on: it is not done and the next token of its sketch
\* is a fixed token whose action is not valid
Stuck(id) == ~heap[id].done /\ StuckToken(ghost[id].sketch, heap[id], Len(heap[id].prog))

EnvsOfBeams(bs) ==
    UNION {{bs[b].hyps[k].env : k \in 1..Len(bs[b].hyps)} : b \in 1..Len(bs)}

EnvsOfPool(ch) == UNION {{ch[nm][k].env : k \in 1..Len(ch[nm])} : nm \in DOMAIN ch}

EnvsOfCompleted(ce) == {ce[k].env : k \in 1..Len(ce)}

\* the environments the trajectories of a result were read from
Sources(r) ==
    IF r.kind = "list" THEN {r.val[k].trajectory.src : k \in 1..Len(r.val)}
    ELSE IF r.kind = "dict"
         THEN UNION {{r.val[nm][k].trajectory.src : k \in 1..Len(r.val[nm])} :
                        nm \in DOMAIN r.val}
         ELSE {}

\* the env.step calls a transition adds
NewSteps == {steps'[k] : k \in (Len(steps) + 1)..Len(steps')}

\* the environments a transition creates
NewClones == (Len(heap) + 1)..Len(heap')

\* a stuck environment stays as it is and goes nowhere
C5_Dropped ==
    \A id \in Clones :
        Stuck(id) =>
            /\ heap'[id] = heap[id]
            /\ \A st \in NewSteps : st[1] # id
            /\ \A c \in NewClones : ghost'[c].parent # id
            /\ pc' = "loop" => (id \notin EnvsOfBeams(beams') /\ id \notin Range(active_envs'))
            /\ id \notin EnvsOfPool(completed_hyps')
            /\ id \notin EnvsOfCompleted(completed_envs')
            /\ id \notin Sources(result')

\* in new_beam_search, a live hypothesis whose token is a fixed token with a valid
\* action has exactly one candidate in the pool of the step, that action's
C5_OneCandidate ==
    (algo = "nbs" /\ pc = "loop" /\ pc' # "error") =>
        \A b \in 1..Len(beams) : \A k \in 1..Len(beams[b].hyps) :
            LET h == beams[b].hyps[k]
                pool == hist'[beams[b].name].pool
                mine == {i \in 1..Len(pool) :
                            pool[i].kind = "cand" /\ pool[i].prev_hyp_env = h.env}
            IN  (/\ InRange(h.sketch, t)
                 /\ ~IsVariableSlot(TokenAt(h.sketch, t))
                 /\ ~StuckToken(h.sketch, heap[h.env], t)) =>
                    /\ Cardinality(mine) = 1
                    /\ \A i \in mine : pool[i].action_id = Lookup(TokenAt(h.sketch, t))

\* C5: in sample and new_beam_search, a hypothesis whose sketch token at the
\* current step is a fixed token whose action is not valid is dropped at that
\* step: its environment is not stepped, no hypothesis continues it, and it is
\* neither in the next active set or beam, nor in the completed pool, nor in the
\* result.  In new_beam_search a fixed token whose action is valid yields exactly
\* one candidate.
C5_FixedTokenNotValid == [][C5_Dropped /\ C5_OneCandidate]_vars

\* C5, its case: new_beam_search returned results for a question one of whose
\* hypotheses had been dropped at a fixed token after it had executed an action
C5_Witness ==
    /\ algo = "nbs" /\ pc = "done" /\ result.kind = "dict"
    /\ \E nm \in Range(EnvNames) :
          /\ Len(result.val[nm]) > 0
          /\ \E id \in Clones :
                heap[id].name = nm /\ Stuck(id) /\ Len(heap[id].prog) > 0

\* some live hypothesis is at a time step its sketch has no token for
Desync ==
    \/ algo = "sample" /\ \E i \in 1..Len(active_envs) : ~InRange(sketches[i], t)
    \/ algo = "nbs" /\ \E b \in 1..Len(beams) : \E k \in 1..Len(beams[b].hyps) :
                          ~InRange(beams[b].hyps[k].sketch, t)

\* a step that meets no desynchronised hypothesis does not raise; in sample every
\* active environment that is not stuck is stepped and then is done or active; in
\* new_beam_search every candidate among the first beam_size pool entries is
\* executed on a clone
C6_StepAbsorbs ==
    (algo \in {"sample", "nbs"} /\ pc = "loop" /\ ~Desync) =>
        /\ pc' \in {"loop", "final"} /\ raised' = ""
        /\ algo = "sample" =>
              \A i \in 1..Len(active_envs) :
                  LET id == active_envs[i]
                  IN  IF StuckToken(sketches[i], heap[id], t)
                      THEN heap'[id] = heap[id]
                      ELSE /\ <<id, t>> \in NewSteps
                           /\ Len(heap'[id].prog) = Len(heap[id].prog) + 1
                           /\ \/ heap'[id].done
                              \/ pc' = "loop" /\ id \in Range(active_envs')
        /\ algo = "nbs" =>
              \A nm \in DOMAIN hist' :
                  LET pool == hist'[nm].pool
                  IN  \A k \in 1..Min(beam_size, Len(pool)) :
                          pool[k].kind = "cand" =>
                              \E c \in NewClones :
                                  /\ ghost'[c].parent = pool[k].prev_hyp_env
                                  /\ heap'[c].prog = Append(heap[pool[k].prev_hyp_env].prog,
                                                            pool[k].action_id)

\* the call returns, and nothing that failed is in the result
C6_Returns ==
    (algo \in {"sample", "nbs"} /\ pc = "final") =>
        /\ pc' = "done" /\ raised' = "" /\ result'.kind # "none"
        /\ \A id \in Sources(result') : heap[id].done /\ ~heap[id].error

\* C6: in sample and new_beam_search an execution failure and a fixed token that
\* is not valid never raise: the hypothesis is absorbed, it is absent from the
\* result, the other hypotheses keep being stepped, and the call returns normally.
C6_FailuresAbsorbed == [][C6_StepAbsorbs /\ C6_Returns]_vars

\* C6, its case: sample returned a sample of a question after another clone of
\* the question had failed in execution or had been dropped at a fixed token
C6_Witness ==
    /\ algo = "sample" /\ pc = "done" /\ raised = ""
    /\ \E k \in 1..Len(result.val) :
          \E id \in Clones :
              /\ heap[id].name = result.val[k].trajectory.name
              /\ heap[id].error \/ Stuck(id)

\* the first active position of sample whose sketch has no token for step t
FirstDesync == CHOOSE i \in 1..Len(active_envs) :
                   /\ ~InRange(sketches[i], t)
                   /\ \A j \in 1..(i - 1) : InRange(sketches[j], t)

\* sample stops at the first desynchronised position of the step
C8_Aborts ==
    (algo = "sample" /\ pc = "loop" /\ Desync) =>
        /\ pc' = "error" /\ raised' \in {"ValueError", "IndexError"}
        /\ result' = NoResult
        /\ \A st \in NewSteps :
              \E j \in 1..(FirstDesync - 1) : active_envs[j] = st[1]

\* C8: in sample, if at some step an active hypothesis's time step is greater
\* than or equal to the length of its sketch, the call aborts with an error at
\* that step: no further environment is stepped and no sample is returned, not
\* even the samples that had completed.
C8_SampleDesyncAborts ==
    [][C8_Aborts /\ ((algo = "sample" /\ pc = "error") => UNCHANGED vars)]_vars

\* C8, its case: sample aborted at a desynchronised hypothesis when another
\* environment had already completed without error
C8_Witness ==
    /\ algo = "sample" /\ pc = "error" /\ raised = "ValueError"
    /\ result = NoResult
    /\ \E k \in 1..Len(completed_envs) : ~heap[completed_envs[k].env].error

\* new_beam_search raises when it meets a desynchronised hypothesis, and no clone
\* continues such a hypothesis
C9_Aborts ==
    (algo = "nbs" /\ pc = "loop" /\ Desync) =>
        /\ pc' = "error" /\ raised' = "IndexError"
        /\ result' = NoResult
        /\ \A b \in 1..Len(beams) : \A k \in 1..Len(beams[b].hyps) :
              ~InRange(beams[b].hyps[k].sketch, t) =>
                  \A c \in NewClones : ghost'[c].parent # beams[b].hyps[k].env

\* C9: in new_beam_search, if at some step a live hypothesis's time step is at or
\* beyond the end of its sketch, the search aborts with an error that ends the
\* whole batch; no hypothesis is continued from a token read out of range, and
\* nothing is returned.
C9_BeamDesyncAborts ==
    [][C9_Aborts /\ ((algo = "nbs" /\ pc = "error") => UNCHANGED vars)]_vars

\* C9, its case: new_beam_search aborted at the token read of a desynchronised
\* hypothesis (the mask still had a column for the step) when a question already
\* had completed hypotheses
C9_Witness ==
    /\ algo = "nbs" /\ pc = "error" /\ raised = "IndexError"
    /\ result = NoResult
    /\ t < Len(sketch_encoding.var_time_step_mask[1])
    /\ \E nm \in Range(EnvNames) : Len(completed_hyps[nm]) > 0

\* what a caller sees of a question's results: the programs and their scores
Programs(samples) ==
    [k \in 1..Len(samples) |->
        [program |-> samples[k].trajectory.program, prob |-> samples[k].prob]]

\* the outcome, for question nm, of new_beam_search called with the same
\* arguments on that question alone
SoloOutcome(nm) ==
    LET S == NbsRun(Args, NbsBegin(Args, <<nm>>))
    IN  IF S.pc = "error" THEN [aborted |-> TRUE, list |-> <<>>]
        ELSE [aborted |-> FALSE,
              list |-> Programs(NbsReturn(Args, S, <<nm>>, FALSE).val[nm])]

\* the outcome, for question nm, of the call on the batch
BatchOutcome(nm) ==
    IF pc = "error" THEN [aborted |-> TRUE, list |-> <<>>]
    ELSE [aborted |-> FALSE, list |-> Programs(result.val[nm])]

\* C7 as stated: the result list new_beam_search gives a question is the same
\* whether the question is run alone or in the batch, whatever the other
\* questions are.
C7_SameAloneOrTogether ==
    (algo = "nbs" /\ (pc = "error" \/ (pc = "done" /\ result.kind = "dict"))) =>
        \A nm \in Range(EnvNames) : BatchOutcome(nm) = SoloOutcome(nm)

\* C7, amended: when new_beam_search returns on the batch, the result list of
\* every question is the one the question gets when run alone (a desynchronised
\* hypothesis of another question aborts the batch and leaves the question
\* without the list it gets alone).
C7_SameWhenReturned ==
    (algo = "nbs" /\ pc = "done" /\ result.kind = "dict") =>
        \A nm \in Range(EnvNames) : BatchOutcome(nm) = SoloOutcome(nm)

\* C7, its case: the batch returned results for one question and none for
\* another question that had candidate sketches
C7_Witness ==
    /\ algo = "nbs" /\ pc = "done" /\ result.kind = "dict"
    /\ \E nm, other \in Range(EnvNames) :
          /\ Len(result.val[nm]) > 1
          /\ Len(cands[other]) > 0 /\ Len(result.val[other]) = 0

\* exp(x) for a log-probability x in base 2, as a fixed-point number of
\* ProbUnit-ths
ProbUnit == 2 ^ 10

Exp(x) == IF x = NegInf THEN 0 ELSE ProbUnit \div (2 ^ (0 - x))

\* the samples of a result, in one set
SamplesOf(r) ==
    IF r.kind = "list" THEN Range(r.val)
    ELSE IF r.kind = "dict" THEN UNION {Range(r.val[nm]) : nm \in DOMAIN r.val}
         ELSE {}

\* the sketch prior plus the sum, over the variable slots of the trajectory, of
\* the log-probability the decoder gave the action taken
LogProbOf(smp) ==
    Add(ghost[smp.trajectory.src].sketch.prob, ghost[smp.trajectory.src].ground)

\* C10 as stated: the prob of every Sample returned by sample or new_beam_search
\* is exp(sketch prior log-probability + sum of the log-probabilities of the
\* actions taken at the variable slots).
C10_ProbIsExp ==
    (algo \in {"sample", "nbs"} /\ pc = "done") =>
        \A smp \in SamplesOf(result) : smp.prob = Exp(LogProbOf(smp))

\* C10, amended: the prob of every Sample returned by sample or new_beam_search
\* is the log-probability itself: the sketch prior log-probability plus the sum
\* of the log-probabilities of the actions taken at the variable slots; it is
\* not exponentiated.
C10_ProbIsLogProb ==
    (algo \in {"sample", "nbs"} /\ pc = "done") =>
        \A smp \in SamplesOf(result) : smp.prob = LogProbOf(smp)

\* C10, its case: sample returned a trajectory of a sketch with a fixed token and
\* a variable slot, with a prior and a grounding sum that are not 0
C10_Witness ==
    /\ algo = "sample" /\ pc = "done"
    /\ \E smp \in SamplesOf(result) :
          LET g == ghost[smp.trajectory.src]
          IN  /\ g.sketch.prob < 0 /\ g.ground < 0
              /\ \E k \in 1..Len(g.sketch.tokens) : IsVariableSlot(g.sketch.tokens[k])
              /\ \E k \in 1..Len(g.sketch.tokens) : ~IsVariableSlot(g.sketch.tokens[k])

\* the returned samples of question nm
SamplesNamed(r, nm) == {k \in 1..Len(r.val) : r.val[k].trajectory.name = nm}

\* C11: sample clones the environment of every question that has candidate
\* sketches sample_num times, one clone per drawn sketch (a sketch may be drawn
\* more than once), and the environment of a question without sketches never;
\* it returns at most one sample per clone, so at most sample_num per question and
\* at most (number of questions) * sample_num in all, and every returned sample
\* was read from a clone that finished without error.
C11_OneSamplePerClone ==
    (algo = "sample" /\ pc # "start") =>
        /\ \A nm \in Range(EnvNames) :
              Cardinality({id \in Clones : heap[id].name = nm}) =
                  IF Len(cands[nm]) > 0 THEN sample_num ELSE 0
        /\ \A id \in Clones :
              \E k \in 1..Len(cands[heap[id].name]) :
                  SketchEq(ghost[id].sketch, cands[heap[id].name][k])
        /\ pc = "done" =>
              /\ result.kind = "list"
              /\ Sources(result) \subseteq Clones
              /\ Cardinality(Sources(result)) = Len(result.val)
              /\ \A k \in 1..Len(result.val) :
                    FromFinished(result.val[k], heap[result.val[k].trajectory.src].name)
              /\ \A nm \in Range(EnvNames) :
                    Cardinality(SamplesNamed(result, nm)) <= sample_num
              /\ Len(result.val) <= Len(EnvNames) * sample_num

\* C11, its case: sample drew the same sketch twice for a question and returned
\* the programs of both clones
C11_Witness ==
    /\ algo = "sample" /\ pc = "done" /\ sample_num = 2
    /\ \E i, j \in Sources(result) :
          /\ i # j
          /\ heap[i].name = heap[j].name
          /\ SketchEq(ghost[i].sketch, ghost[j].sketch)

\* the caller's environments as they were before the call, and no other
Untouched == heap = [i \in 1..Len(EnvNames) |-> NewEnv(EnvNames[i])]

\* C12: sample called with sample_num = 0 returns the empty list at once and raises
\* nothing; no environment is cloned or stepped, no sketch is drawn, and neither
\* the encoders nor the decoder are called.
C12_ZeroSamples ==
    (algo = "sample" /\ sample_num = 0 /\ pc # "start") =>
        /\ pc = "done" /\ raised = ""
        /\ result = [kind |-> "list", val |-> <<>>]
        /\ Untouched
        /\ steps = <<>>
        /\ sketches = <<>>
        /\ DOMAIN context_encoding = {} /\ DOMAIN sketch_encoding = {}
        /\ state_tm1 = <<>>

\* C12, its case: sample returned for sample_num = 0 although every question had
\* candidate sketches
C12_Witness ==
    /\ algo = "sample" /\ sample_num = 0 /\ pc = "done"
    /\ \A nm \in Range(EnvNames) : Len(cands[nm]) > 0
\* the predictor (or the caller) has no sketch for question nm
NoSketch(nm) == Len(cands[nm]) = 0

\* what the result holds for question nm
ResultsOf(r, nm) ==
    IF r.kind = "dict" THEN r.val[nm]
    ELSE SelectSeq(r.val, LAMBDA smp : smp.trajectory.name = nm)

\* C13: a question without sketches makes neither sample nor new_beam_search
\* raise (a call only ever raises at a hypothesis that ran past its sketch, and
\* such a question has no hypothesis): no environment is cloned for it, sample
\* returns no sample for it and new_beam_search an empty list, and the questions
\* that have sketches get their clones.  When no question has a sketch both
\* return an empty result, and neither the decoder nor an environment is used.
C13_NoSketchNoHarm ==
    (algo \in {"sample", "nbs"} /\ pc # "start") =>
        /\ \A nm \in Range(EnvNames) :
              IF NoSketch(nm)
              THEN /\ \A id \in Clones : heap[id].name # nm
                   /\ pc = "done" => ResultsOf(result, nm) = <<>>
              ELSE (algo = "sample" => sample_num > 0) =>
                       Cardinality({id \in Clones : heap[id].name = nm}) >=
                           IF algo = "sample" THEN sample_num ELSE Len(cands[nm])
        /\ pc = "error" => Desync
        /\ (\A nm \in Range(EnvNames) : NoSketch(nm)) =>
              /\ pc \in {"final", "done"} /\ raised = ""
              /\ Untouched /\ steps = <<>> /\ state_tm1 = <<>>
              /\ DOMAIN sketch_encoding = {}
              /\ pc = "done" => Sources(result) = {}

\* C13, its case: new_beam_search returned an empty list for a question without
\* sketches and programs for the other question of the batch
C13_Witness ==
    /\ algo = "nbs" /\ pc = "done" /\ result.kind = "dict"
    /\ \E nm, other \in Range(EnvNames) :
          /\ NoSketch(nm) /\ result.val[nm] = <<>>
          /\ Len(result.val[other]) > 0
\* the scenario of C14: the batch's only hypothesis is the sketch [A, v, B] of the
\* first question, the width is 2, the interpreter offers the actions of A and B
\* and no other, no action fails, and a program ends after three actions
FixedVarFixed ==
    /\ algo = "nbs" /\ beam_size = 2
    /\ cands[EnvNames[1]] = << Sk(<<"A", "v", "B">>, -1) >>
    /\ NoSketch(EnvNames[2])
    /\ world = [acts |-> <<1, 2>>, bad |-> 0, fin |-> 0, plen |-> 3]

\* the decoder's log-probability of action a at the variable step of the scenario
VarStepScore(a) ==
    LET S == NbsStep(Args, NbsBegin(Args, EnvNames))
    IN  DecScore(dec, S.observations_tm1[1], S.state_tm1[1],
                 RowOf(S.context_encoding, 1), RowOf(S.sketch_encoding, 1), a)

\* C14: new_beam_search on one question with the sketch [A, v, B], beam_size 2
\* and two valid actions at the variable step whose log-probabilities p1 > p2 are
\* finite returns exactly the two completed programs [A, a1, B] and [A, a2, B],
\* the one of p1 first, with the scores prior + p1 and prior + p2.
C14_TwoVariantsRanked ==
    (FixedVarFixed /\ pc = "done"
        /\ VarStepScore(1) # VarStepScore(2)
        /\ VarStepScore(1) # NegInf /\ VarStepScore(2) # NegInf) =>
        LET hi == IF VarStepScore(1) > VarStepScore(2) THEN 1 ELSE 2
            lo == 3 - hi
        IN  Programs(ResultsOf(result, EnvNames[1])) =
                << [program |-> <<1, hi, 2>>, prob |-> -1 + VarStepScore(hi)],
                   [program |-> <<1, lo, 2>>, prob |-> -1 + VarStepScore(lo)] >>

\* C14, its case: the search of the scenario returned, the decoder having told
\* the two actions of the variable step apart
C14_Witness ==
    /\ FixedVarFixed /\ pc = "done" /\ result.kind = "dict"
    /\ VarStepScore(1) # VarStepScore(2)
    /\ Len(result.val[EnvNames[1]]) = 2
\* pool entry x stood before pool entry y in all_candidates, the list line 637
\* builds: the completed hypotheses (oldest first), then the candidates by the
\* row of their parent and, for one parent, by the place of their action in the
\* valid-action list
StoodBefore(x, y) ==
    IF x.kind = "hyp" THEN (y.kind = "hyp" => x.env < y.env)
    ELSE /\ y.kind = "cand"
         /\ \/ x.prev_hyp_abs_pos < y.prev_hyp_abs_pos
            \/ /\ x.prev_hyp_abs_pos = y.prev_hyp_abs_pos
               /\ x.rel_action_id < y.rel_action_id

\* the pool entry that hypothesis h of the state after the step came from
PoolPos(pool, h) ==
    CHOOSE i \in 1..Len(pool) :
        IF pool[i].kind = "hyp" THEN pool[i].env = h.env
        ELSE /\ ghost[h.env].parent = pool[i].prev_hyp_env
             /\ heap[h.env].prog[Len(heap[h.env].prog)] = pool[i].action_id
             /\ \A j \in 1..Len(pool) : pool[j].kind = "hyp" => pool[j].env # h.env

\* the hypotheses of hyps come from pool entries of increasing position
InPoolOrder(pool, hyps) ==
    \A i, j \in 1..Len(hyps) : i < j => PoolPos(pool, hyps[i]) < PoolPos(pool, hyps[j])

\* C15: new_beam_search leaves nothing to chance.  After every step the pool of
\* a question is its completed hypotheses and its candidates ordered by
\* descending score, entries of the same score in the order they were built
\* (the sort is stable), and the hypotheses of the new beam and of the completed
\* pool were admitted in the order of the pool.  The step is a function of the
\* state and of the decoder's scores, so two runs on the same inputs agree.
C15_PoolOrderDecides ==
    (algo = "nbs" /\ pc \in {"loop", "final", "done"}) =>
        \A nm \in DOMAIN hist :
            hist[nm].live =>
                LET pool == hist[nm].pool
                IN  /\ \A i, j \in 1..Len(pool) :
                          i < j =>
                              \/ pool[i].score > pool[j].score
                              \/ /\ pool[i].score = pool[j].score
                                 /\ StoodBefore(pool[i], pool[j])
                    /\ InPoolOrder(pool, NewBeamOf(nm))
                    /\ InPoolOrder(pool, completed_hyps[nm])

\* C15, its case: two candidates of the same score stood in the pool, one was
\* admitted to the new beam and the width left the other out
C15_Witness ==
    /\ algo = "nbs" /\ pc = "loop" /\ ~force
    /\ \E nm \in DOMAIN hist :
          /\ hist[nm].live
          /\ \E i, j \in 1..Len(hist[nm].pool) :
                /\ i < j /\ i <= beam_size /\ j > beam_size
                /\ hist[nm].pool[i].kind = "cand" /\ hist[nm].pool[j].kind = "cand"
                /\ hist[nm].pool[i].score = hist[nm].pool[j].score
                /\ \E k \in 1..Len(NewBeamOf(nm)) :
                      PoolPos(hist[nm].pool, NewBeamOf(nm)[k]) = i
\* the observation recorded before action tt of trajectory tr
Recorded(tr, tt) == [name |-> tr.name, prog |-> SubSeq(tr.actions, 1, tt)]

\* what the decoder fed with the first tt recorded observations of trajectory tr
\* (and its context and sketch, padded to width) gives the recorded action tt
RecordedLogProb(tr, tt, width) ==
    DecScore(dec, Recorded(tr, tt),
             [ctx |-> tr.name, sk |-> tr.tokens,
              seen |-> [k \in 1..tt |-> Recorded(tr, k - 1)]],
             [question_encoding |-> tr.name, question_mask |-> tr.name,
              question_encoding_att_linear |-> tr.name],
             [value |-> tr.tokens,
              mask |-> [k \in 1..width |-> IF k <= Len(tr.tokens) THEN 1 ELSE 0],
              var_time_step_mask |->
                  [k \in 1..width |->
                      IF k <= Len(tr.tokens) /\ tr.tokens[k] = "v" THEN 1 ELSE 0]],
             tr.actions[tt + 1])

RECURSIVE GroundingSum(_, _, _)
\* the sum, over the steps tt and later of trajectory tr that are variable
\* slots, of the log-probability of the recorded action
GroundingSum(tr, tt, width) ==
    IF tt >= Len(tr.actions) THEN 0
    ELSE (IF tr.tokens[tt + 1] = "v" THEN RecordedLogProb(tr, tt, width) ELSE 0)
            + GroundingSum(tr, tt + 1, width)

\* C16: compute_trajectory_actions_prob calls the decoder step once per time
\* step t = 0 .. max_len-1, in order, each time on the observations recorded at
\* t (padding past the end of a trajectory), and returns for every trajectory
\* its sketch prior plus the sum of the log-probabilities of its recorded
\* actions at the steps that are variable slots of its sketch; padded steps and
\* fixed-token steps add 0.
C16_TrajectoryLogProb ==
    (algo = "score" /\ pc # "start") =>
        LET n == Len(trajectories)
            width == MaxTimeStep(trajectories)
        IN  /\ Len(action_logits) = t /\ t <= width
            /\ pc \in {"final", "done"} <=> t = width
            /\ \A i \in 1..n :
                  state_tm1[i].seen = [k \in 1..t |-> ObsSlice(trajectories, k - 1)[i]]
            /\ pc = "done" =>
                  /\ result.kind = "probs" /\ Len(result.val) = n
                  /\ \A i \in 1..n :
                        result.val[i] = trajectories[i].prior
                                          + GroundingSum(trajectories[i], 0, width)

\* C16, its case: the scorer returned for a batch of two trajectories of
\* different lengths, the longer one with a fixed token among its steps
C16_Witness ==
    /\ algo = "score" /\ pc = "done" /\ Len(trajectories) = 2
    /\ Len(trajectories[1].actions) < Len(trajectories[2].actions)
    /\ \E k \in 1..Len(trajectories[2].tokens) : trajectories[2].tokens[k] # "v"
    /\ result.val[2] < trajectories[2].prior
\* the length of the longest sketch of the call
LongestSketch ==
    IF Clones = {} THEN 0
    ELSE CHOOSE n \in {Len(ghost[id].sketch.tokens) : id \in Clones} :
             \A id \in Clones : Len(ghost[id].sketch.tokens) <= n

\* the environments a step leaves active: those it stepped (sample) or created
\* (new_beam_search) and did not finish
ActiveAfter ==
    IF algo = "sample" THEN {st[1] : st \in {x \in NewSteps : ~heap'[x[1]].done}}
    ELSE {c \in NewClones : ~heap'[c].done}

\* the loop has run at most LongestSketch iterations, t of them left something
\* active; a call that returned ran t + 1 of them
C17_Bounded ==
    (algo \in {"sample", "nbs"} /\ Clones # {}) =>
        /\ t <= LongestSketch
        /\ pc \in {"final", "done"} => t + 1 <= LongestSketch
        /\ \A k \in 1..Len(steps) : steps[k][2] < LongestSketch

\* the loop exits exactly when nothing is active after the step; when every sketch
\* is used up and something is still active the next iteration aborts before it
\* steps an environment
C17_ExitsWhenEmpty ==
    (algo \in {"sample", "nbs"} /\ pc = "loop") =>
        /\ pc' \in {"loop", "final", "error"}
        /\ pc' = "final" <=> (raised' = "" /\ ActiveAfter = {})
        /\ pc' = "loop" =>
              /\ t' = t + 1
              /\ ActiveAfter =
                    IF algo = "sample" THEN Range(active_envs') ELSE EnvsOfBeams(beams')
        /\ t = LongestSketch => (pc' = "error" /\ steps' = steps /\ heap' = heap)

\* C17: the step loops of sample and new_beam_search terminate.  The loop exits
\* exactly when no hypothesis is active after a step; it steps environments in
\* at most (longest sketch length) iterations, after which the call has returned
\* or the next iteration aborts with the desynchronisation error; every call
\* ends, returning or raising.
C17_Terminates ==
    /\ []C17_Bounded
    /\ [][C17_ExitsWhenEmpty]_vars
    /\ <>(pc \in {"done", "error"})

\* C17, its case: a search that ran as many iterations as its longest sketch is
\* long, more than one, and returned
C17_Witness ==
    /\ algo \in {"sample", "nbs"} /\ pc = "done"
    /\ LongestSketch >= 2 /\ t + 1 = LongestSketch
    /\ Sources(result) # {}
RECURSIVE LiveHyps(_, _)
\* the live hypotheses in the order of the flattened batch: beam after beam
LiveHyps(bs, b) == IF b > Len(bs) THEN <<>> ELSE bs[b].hyps \o LiveHyps(bs, b + 1)

\* the observations a hypothesis's environment showed before each of its actions
SeenBy(env) == [k \in 1..Len(env.prog) |-> [name |-> env.name, prog |-> SubSeq(env.prog, 1, k - 1)]]

\* row i of every sketch-encoding buffer is the row of sketch sk, padded to width
SketchRowIs(enc, i, sk, width) ==
    /\ enc.value[i] = sk.tokens
    /\ enc.mask[i] = [k \in 1..width |-> IF k <= Len(sk.tokens) THEN 1 ELSE 0]
    /\ enc.var_time_step_mask[i] =
           [k \in 1..width |->
               IF k <= Len(sk.tokens) /\ IsVariableSlot(sk.tokens[k]) THEN 1 ELSE 0]

\* row i of every context-encoding buffer is the row of question name
ContextRowIs(enc, i, name) ==
    /\ enc.question_encoding[i] = name
    /\ enc.question_mask[i] = name
    /\ enc.question_encoding_att_linear[i] = name

\* every buffer of enc has n rows
RowsOf(enc, n) == \A k \in DOMAIN enc : Len(enc[k]) = n

\* C18: in new_beam_search, at the start of every step, row i of the decoder
\* state, of the observations, of hyp_scores_tm1 and of every context and sketch
\* encoding buffer (var_time_step_mask included) belongs to the i-th live
\* hypothesis of the flattened beams, no buffer has another row, and
\* hyp_scores_tm1[i] is that hypothesis's score.
C18_RowsAligned ==
    (algo = "nbs" /\ pc = "loop") =>
        LET live == LiveHyps(beams, 1)
            n == Len(live)
            width == LongestSketch
        IN  /\ Len(state_tm1) = n /\ Len(observations_tm1) = n /\ Len(hyp_scores_tm1) = n
            /\ RowsOf(context_encoding, n) /\ RowsOf(sketch_encoding, n)
            /\ \A i \in 1..n :
                  LET h == live[i]
                      env == heap[h.env]
                  IN  /\ observations_tm1[i] = ObsOf(env)
                      /\ hyp_scores_tm1[i] = h.score
                      /\ state_tm1[i] = [ctx |-> env.name, sk |-> h.sketch.tokens,
                                         seen |-> SeenBy(env)]
                      /\ Len(env.prog) = t
                      /\ ContextRowIs(context_encoding, i, env.name)
                      /\ SketchRowIs(sketch_encoding, i, h.sketch, width)

\* C18, its case: a step left two hypotheses of a question live in the order of
\* their scores, which is not the order of their parents' rows
C18_Witness ==
    /\ algo = "nbs" /\ pc = "loop" /\ t >= 1
    /\ \E b \in 1..Len(beams) : \E i, j \in 1..Len(beams[b].hyps) :
          /\ i < j
          /\ ghost[beams[b].hyps[i].env].parent > ghost[beams[b].hyps[j].env].parent

\* C19: in sample, at the start of every step, position i of the decoder state,
\* of the running scores, of the sketch list, of the observations and of every
\* context and sketch encoding buffer (question_encoding, question_mask,
\* question_encoding_att_linear; value, mask, var_time_step_mask) belongs to
\* active_envs[i], and no buffer has another row: whenever the active set shrank,
\* all of them were re-indexed by the one list of surviving positions.
C19_SampleRowsAligned ==
    (algo = "sample" /\ pc = "loop") =>
        LET n == Len(active_envs)
            width == LongestSketch
        IN  /\ Len(state_tm1) = n /\ Len(observations_tm1) = n /\ Len(sample_probs) = n
            /\ Len(sketches) = n
            /\ RowsOf(context_encoding, n) /\ RowsOf(sketch_encoding, n)
            /\ \A i \in 1..n :
                  LET env == heap[active_envs[i]]
                      sk == ghost[active_envs[i]].sketch
                  IN  /\ observations_tm1[i] = ObsOf(env)
                      /\ sketches[i] = sk
                      /\ sample_probs[i] = ghost[active_envs[i]].ground
                      /\ state_tm1[i] = [ctx |-> env.name, sk |-> sk.tokens,
                                         seen |-> SeenBy(env)]
                      /\ ContextRowIs(context_encoding, i, env.name)
                      /\ SketchRowIs(sketch_encoding, i, sk, width)
RECURSIVE CompletedFrom(_, _)
\* the completed hypotheses of the beam searches, question after question
CompletedFrom(ch, i) ==
    IF i > Len(EnvNames) \/ ch = <<>> THEN <<>>
    ELSE ch[EnvNames[i]] \o CompletedFrom(ch, i + 1)

\* the environment of every hypothesis the search holds, live or completed, one
\* entry per hypothesis; sample's samples are live while the loop runs (after its
\* break, line 390, active_envs still lists the samples that just completed)
HeldEnvs ==
    IF algo = "sample"
    THEN (IF pc = "loop" THEN active_envs ELSE <<>>)
             \o [k \in 1..Len(completed_envs) |-> completed_envs[k].env]
    ELSE LET held == LiveHyps(beams, 1) \o CompletedFrom(completed_hyps, 1)
         IN  [k \in 1..Len(held) |-> held[k].env]

\* the caller's environments are as they were, env.step was only ever called on
\* clones, a beam search stepped no clone twice, and no two hypotheses hold the
\* same environment
C20_NothingShared ==
    (algo \in {"sample", "nbs", "bs"}) =>
        /\ \A i \in 1..Len(EnvNames) : heap[i] = NewEnv(EnvNames[i])
        /\ \A k \in 1..Len(steps) : steps[k][1] \in Clones
        /\ algo \in {"nbs", "bs"} =>
              \A j, k \in 1..Len(steps) : j < k => steps[j][1] # steps[k][1]
        /\ \A j, k \in 1..Len(HeldEnvs) : j < k => HeldEnvs[j] # HeldEnvs[k]

\* a step of a beam search leaves every environment that existed before it as it
\* was (those of the current beam, of the completed pool and every parent among
\* them), calls env.step once on each clone it makes and on nothing else, and
\* builds each hypothesis of the new beam on one of these clones; a step of sample
\* calls env.step on clones that are active and on nothing else
C20_StepsFreshClones ==
    (algo \in {"sample", "nbs", "bs"} /\ pc = "loop") =>
        /\ \A i \in 1..Len(EnvNames) : heap'[i] = heap[i]
        /\ algo = "sample" =>
              /\ \A st \in NewSteps : st[1] \in Range(active_envs)
              /\ \A id \in 1..Len(heap) : id \notin Range(active_envs) => heap'[id] = heap[id]
        /\ algo \in {"nbs", "bs"} =>
              /\ \A id \in 1..Len(heap) : heap'[id] = heap[id]
              /\ {st[1] : st \in NewSteps} = NewClones
              /\ Len(steps') - Len(steps) = Cardinality(NewClones)
              /\ \A c \in NewClones :
                    /\ ghost'[c].parent \in EnvsOfBeams(beams)
                    /\ heap'[c].prog = Append(heap[ghost'[c].parent].prog,
                                              heap'[c].prog[Len(heap'[c].prog)])
              /\ pc' = "loop" => EnvsOfBeams(beams') \subseteq NewClones

\* a step of a beam search leaves each clone it stepped in the hands of exactly
\* one hypothesis, live or completed
C20_EachCloneHeld ==
    (algo \in {"nbs", "bs"} /\ pc = "loop") =>
        \A c \in NewClones :
            Cardinality({k \in 1..Len(HeldEnvs') : HeldEnvs'[k] = c}) = 1

\* C20 as stated: as C20_CloneOnBranch, and every clone that was stepped is
\* referenced by exactly one hypothesis
C20_CloneHeldByExactlyOne ==
    []C20_NothingShared /\ [][C20_StepsFreshClones /\ C20_EachCloneHeld]_vars

\* C20: sample, new_beam_search and beam_search never call step on an
\* environment the caller supplied; the beam searches never step an environment
\* held by a hypothesis of the current beam or of the completed pool: every step
\* is applied to a fresh clone, which at most one hypothesis then holds (a clone
\* whose program ended in an error is held by none); no two hypotheses share an
\* environment, and a parent's execution state is the same after its children
\* were executed.
C20_CloneOnBranch == []C20_NothingShared /\ [][C20_StepsFreshClones]_vars

\* C20, its case: a beam search executed two children of one parent, and both
\* are held by hypotheses
C20_Witness ==
    /\ algo \in {"nbs", "bs"}
    /\ \E c1, c2 \in Clones :
          /\ c1 # c2
          /\ ghost[c1].parent = ghost[c2].parent
          /\ \E k \in 1..Len(steps) : steps[k][1] = c1
          /\ \E k \in 1..Len(steps) : steps[k][1] = c2
          /\ {c1, c2} \subseteq Range(HeldEnvs)

\* the live hypotheses of question nm (none when beams has no entry for it)
ActiveOf(bs, nm) == BeamOf(bs, nm)

\* no live hypothesis is done, every completed one is done without error, and an
\* environment that ended in error is held by neither
C21_States ==
    (algo = "nbs" /\ pc # "start") =>
        /\ \A id \in EnvsOfBeams(beams) : ~heap[id].done
        /\ \A id \in EnvsOfPool(completed_hyps) : heap[id].done /\ ~heap[id].error
        /\ \A id \in 1..Len(heap) :
              heap[id].error => id \notin EnvsOfBeams(beams) \cup EnvsOfPool(completed_hyps)

\* a step of the search steps no completed hypothesis and puts none in the new
\* beam, an environment that is done stays as it is, and the completed pool of a
\* question without live hypothesis stays as it is, as does the question
C21_Moves ==
    (algo = "nbs" /\ pc \in {"loop", "final"}) =>
        /\ \A id \in 1..Len(heap) :
              heap[id].done =>
                  /\ heap'[id] = heap[id]
                  /\ id \notin EnvsOfBeams(beams')
                  /\ \A st \in NewSteps : st[1] # id
        /\ \A nm \in Range(EnvNames) :
              ActiveOf(beams, nm) = <<>> =>
                  /\ completed_hyps'[nm] = completed_hyps[nm]
                  /\ ActiveOf(beams', nm) = <<>>

\* C21: in new_beam_search no hypothesis of an active beam has an environment
\* that is done; every hypothesis of a completed pool has an environment that is
\* done without error; a completed hypothesis is never stepped again and never
\* re-enters an active beam; a candidate whose environment ends done with error
\* is in neither set; and once a question has no active hypothesis its completed
\* pool never changes again.
C21_HypothesisLifeCycle == []C21_States /\ [][C21_Moves]_vars

\* C21, its case: a step was taken while one question had completed hypotheses
\* and no live one and another question was live
C21_Witness ==
    /\ algo = "nbs" /\ pc \in {"loop", "final"} /\ t >= 1
    /\ \E nm, other \in Range(EnvNames) :
          /\ ~hist[nm].live /\ Len(completed_hyps[nm]) > 0
          /\ hist[other].live

\* the entries of a sorted pool that are kept when handed to
\* _add_hypothesis_to_new_beam: the completed hypotheses, and the candidates whose
\* execution does not end in error
Keepable(pool) ==
    {i \in 1..Len(pool) :
        \/ pool[i].kind = "hyp"
        \/ ~EnvStep(world, heap[pool[i].prev_hyp_env], pool[i].rel_action_id).error}

\* C22: in new_beam_search without force_sketch_coverage a candidate that is
\* discarded when executed does not count toward the beam width: after a step
\* each question it processed keeps (completed or live) beam_size hypotheses, or
\* every entry of its pool that can be kept when the pool has fewer.
C22_DiscardedNotCounted ==
    (algo = "nbs" /\ ~force /\ pc \in {"loop", "final"}) =>
        \A nm \in DOMAIN hist :
            hist[nm].live =>
                Len(completed_hyps[nm]) + Len(NewBeamOf(nm))
                    = Min(beam_size, Cardinality(Keepable(hist[nm].pool)))

\* x stood before y in all_candidates as line 647 builds it from the completed
\* pool pre: the completed hypotheses in the order of pre, then the continuations
\* by the position of their parent and by the position of their action in the
\* parent's valid-action list
BuiltBefore(pre, x, y) ==
    IF x.kind = "hyp"
    THEN y.kind = "hyp" => IndexOf(pre, x) < IndexOf(pre, y)
    ELSE /\ y.kind = "cand"
         /\ \/ x.prev_hyp_abs_pos < y.prev_hyp_abs_pos
            \/ /\ x.prev_hyp_abs_pos = y.prev_hyp_abs_pos
               /\ x.rel_action_id < y.rel_action_id

\* the step handed pool entry c of question nm to _add_hypothesis_to_new_beam: a
\* completed hypothesis is back in the completed pool, a continuation was
\* executed on a new clone of its parent
HandedOver(nm, c) ==
    IF c.kind = "hyp" THEN c \in Range(completed_hyps'[nm])
    ELSE \E id \in NewClones :
            /\ ghost'[id].parent = c.prev_hyp_env
            /\ heap'[id].prog = Append(heap[c.prev_hyp_env].prog, c.action_id)

\* the pool a step sorts holds the completed hypotheses of before the step and
\* the continuations, by descending score, entries of the same score as they
\* were built; the first beam_size entries are handed over, and without
\* force_sketch_coverage no other
C23_SortedAndCut ==
    (algo = "nbs" /\ pc = "loop" /\ pc' \in {"loop", "final"}) =>
        \A nm \in DOMAIN hist' :
            hist'[nm].live =>
                LET pool == hist'[nm].pool
                    pre == completed_hyps[nm]
                    hyps == {i \in 1..Len(pool) : pool[i].kind = "hyp"}
                IN  /\ {pool[i] : i \in hyps} = Range(pre)
                    /\ Cardinality(hyps) = Len(pre)
                    /\ \A i, j \in 1..Len(pool) :
                          i < j =>
                              \/ pool[i].score > pool[j].score
                              \/ /\ pool[i].score = pool[j].score
                                 /\ BuiltBefore(pre, pool[i], pool[j])
                    /\ \A i \in 1..Len(pool) :
                          /\ i <= beam_size => HandedOver(nm, pool[i])
                          /\ (i > beam_size /\ ~force) => ~HandedOver(nm, pool[i])

\* C23: in new_beam_search the pool of a question is sorted by descending score
\* with a stable sort: entries of equal score keep the order in which they were
\* built, completed hypotheses before this step's continuations, continuations by
\* the position of their parent in the beam and then by the order of the valid
\* actions; when the width cut falls inside a group of equal scores the earlier
\* entries are the ones admitted.
C23_StableSort == [][C23_SortedAndCut]_vars

\* C23, its case: the width cut fell between a completed hypothesis and a
\* continuation of the same score, and the completed hypothesis was kept
C23_Witness ==
    /\ algo = "nbs" /\ pc \in {"loop", "final"}
    /\ \E nm \in DOMAIN hist :
          /\ hist[nm].live
          /\ \E i, j \in 1..Len(hist[nm].pool) :
                /\ i <= beam_size /\ j > beam_size
                /\ hist[nm].pool[i].kind = "hyp" /\ hist[nm].pool[j].kind = "cand"
                /\ hist[nm].pool[i].score = hist[nm].pool[j].score
                /\ hist[nm].pool[i] \in Range(completed_hyps[nm])

\* pool entry c of question nm, of the pool of the last step, was handed to
\* _add_hypothesis_to_new_beam: a completed hypothesis is in the completed pool,
\* a continuation was executed on a clone of its parent
Taken(nm, c) ==
    IF c.kind = "hyp" THEN c \in Range(completed_hyps[nm])
    ELSE \E id \in Clones :
            /\ ghost[id].parent = c.prev_hyp_env
            /\ heap[id].prog = Append(heap[c.prev_hyp_env].prog, c.action_id)

\* C24: in new_beam_search, behind the first beam_size entries of the sorted
\* pool, no entry is executed or kept without force_sketch_coverage; with it, an
\* entry is taken only if its sketch is a sketch of the prior beam that no entry
\* taken before it has, so that each sketch gives at most one extra admission.
C24_PastTheWidth ==
    (algo = "nbs" /\ pc \in {"loop", "final", "done"}) =>
        \A nm \in DOMAIN hist :
            hist[nm].live =>
                LET pool == hist[nm].pool
                    prior == hist[nm].prior
                IN  \A i \in 1..Len(pool) :
                        (i > beam_size /\ Taken(nm, pool[i])) =>
                            /\ force
                            /\ \E k \in 1..Len(prior) : SketchEq(prior[k].sketch, pool[i].sketch)
                            /\ \A j \in 1..(i - 1) :
                                  Taken(nm, pool[j]) => ~SketchEq(pool[j].sketch, pool[i].sketch)
                            /\ \A j \in (beam_size + 1)..Len(pool) :
                                  (j # i /\ Taken(nm, pool[j]))
                                      => ~SketchEq(pool[j].sketch, pool[i].sketch)

\* C24, its case: with force_sketch_coverage an entry behind the width was taken
\* for its sketch, and a later entry of the same sketch was not
C24_Witness ==
    /\ algo = "nbs" /\ pc \in {"loop", "final"} /\ force
    /\ \E nm \in DOMAIN hist :
          /\ hist[nm].live
          /\ \E i, j \in 1..Len(hist[nm].pool) :
                /\ beam_size < i /\ i < j
                /\ SketchEq(hist[nm].pool[i].sketch, hist[nm].pool[j].sketch)
                /\ Taken(nm, hist[nm].pool[i])
                /\ ~Taken(nm, hist[nm].pool[j])

\* the continuations in pool whose parent is hypothesis h and whose action is a
ContsOf(pool, h, a) ==
    {i \in 1..Len(pool) :
        pool[i].kind = "cand" /\ pool[i].prev_hyp_env = h.env /\ pool[i].action_id = a}

\* a step at which the sketch of live hypothesis h has a variable slot puts in the
\* pool one continuation per valid action of h's environment whose score is
\* finite, with that action's id and position in the valid-action list and the
\* score of h plus the decoder's score of the action, and no other continuation
\* of h
C25_VariableSlotStep ==
    (algo = "nbs" /\ pc = "loop" /\ pc' \in {"loop", "final"}) =>
        \A b \in 1..Len(beams) : \A k \in 1..Len(beams[b].hyps) :
            LET h == beams[b].hyps[k]
                pool == hist'[beams[b].name].pool
                row == RowOfEnv(beams, h.env, 1, 0)
                valid == ValidActions(world, heap[h.env])
            IN  IsVariableSlot(TokenAt(h.sketch, t)) =>
                    \A a \in Actions :
                        LET sc == Add(h.score,
                                      DecScore(dec, ObsOf(heap[h.env]), state_tm1[row],
                                               RowOf(context_encoding, row),
                                               RowOf(sketch_encoding, row), a))
                        IN  IF a \in Range(valid) /\ sc # NegInf
                            THEN /\ Cardinality(ContsOf(pool, h, a)) = 1
                                 /\ \A i \in ContsOf(pool, h, a) :
                                       /\ valid[pool[i].rel_action_id] = a
                                       /\ pool[i].rel_action_id = IndexOf(valid, a)
                                       /\ pool[i].score = sc
                                       /\ pool[i].sketch = h.sketch
                                       /\ pool[i].prev_hyp_abs_pos = row
                            ELSE ContsOf(pool, h, a) = {}

\* C25: in new_beam_search, at a variable-slot step each live hypothesis yields
\* exactly one candidate continuation per valid action of its environment whose
\* score is finite (all of them, not only the best), carrying the absolute id
\* and the relative index of that action and the parent's score plus the
\* decoder's score of the action; a candidate of non-finite score is discarded
\* and no candidate is made for an action that is not valid.
C25_AllValidActions == [][C25_VariableSlotStep]_vars

\* C25, its case: a hypothesis with three valid actions, one of them of
\* non-finite score, gave two continuations at a variable slot
C25_Witness ==
    /\ algo = "nbs" /\ pc \in {"loop", "final"}
    /\ Len(world.acts) = 3
    /\ \E nm \in DOMAIN hist :
          /\ hist[nm].live
          /\ \E k \in 1..Len(hist[nm].prior) :
                Cardinality({i \in 1..Len(hist[nm].pool) :
                               /\ hist[nm].pool[i].kind = "cand"
                               /\ hist[nm].pool[i].prev_hyp_env = hist[nm].prior[k].env}) = 2

\* the hypotheses new_beam_search holds in a state, live then completed
HeldHyps(bs, ch) == LiveHyps(bs, 1) \o CompletedFrom(ch, 1)

\* the search starts with one hypothesis per question and candidate sketch, its
\* score the sketch's prior
C26_Starts ==
    (algo = "nbs" /\ pc = "loop" /\ t = 0) =>
        /\ Len(beams) = Len(EnvNames)
        /\ \A b \in 1..Len(beams) :
              /\ beams[b].name = EnvNames[b]
              /\ Len(beams[b].hyps) = Len(cands[EnvNames[b]])
              /\ \A k \in 1..Len(beams[b].hyps) :
                    /\ beams[b].hyps[k].sketch = cands[EnvNames[b]][k]
                    /\ beams[b].hyps[k].score = cands[EnvNames[b]][k].prob
                    /\ heap[beams[b].hyps[k].env] = NewEnv(EnvNames[b])

\* the score of a hypothesis is the prior of its sketch plus the decoder's scores
\* of the actions it executed at variable slots
C26_Sum ==
    (algo = "nbs" /\ pc # "start") =>
        \A k \in 1..Len(HeldHyps(beams, completed_hyps)) :
            LET h == HeldHyps(beams, completed_hyps)[k]
            IN  /\ ghost[h.env].sketch = h.sketch
                /\ h.score = Add(h.sketch.prob, ghost[h.env].ground)

\* a hypothesis made by a step has the score of its parent when the step's token
\* is fixed, and that score plus the decoder's score of its action when the token
\* is a variable slot
C26_Step ==
    (algo = "nbs" /\ pc = "loop") =>
        \A k \in 1..Len(HeldHyps(beams', completed_hyps')) :
            LET h == HeldHyps(beams', completed_hyps')[k]
            IN  h.env \in NewClones =>
                    \E j \in 1..Len(LiveHyps(beams, 1)) :
                        LET par == LiveHyps(beams, 1)[j]
                            a == heap'[h.env].prog[Len(heap'[h.env].prog)]
                        IN  /\ par.env = ghost'[h.env].parent
                            /\ heap'[h.env].prog = Append(heap[par.env].prog, a)
                            /\ h.sketch = par.sketch
                            /\ IF IsVariableSlot(TokenAt(par.sketch, t))
                               THEN h.score =
                                      Add(par.score,
                                          DecScore(dec, ObsOf(heap[par.env]), state_tm1[j],
                                                   RowOf(context_encoding, j),
                                                   RowOf(sketch_encoding, j), a))
                               ELSE /\ h.score = par.score
                                    /\ a = Lookup(TokenAt(par.sketch, t))

\* C26: in new_beam_search every hypothesis starts with the prior
\* log-probability of its sketch (one initial hypothesis per question and
\* candidate sketch); a fixed-token step leaves the continuation with its
\* parent's score; a variable-slot step adds exactly the decoder's score of the
\* chosen action; so the score of a live or completed hypothesis is its sketch's
\* prior plus the chosen-action scores of its variable-slot steps only.
C26_ScoreAccounting == []C26_Starts /\ []C26_Sum /\ [][C26_Step]_vars

\* C26, its case: a completed hypothesis whose sketch has a fixed token and a
\* variable slot, and whose variable-slot steps added to its score
C26_Witness ==
    /\ algo = "nbs" /\ pc \in {"loop", "final"}
    /\ \E nm \in DOMAIN completed_hyps : \E k \in 1..Len(completed_hyps[nm]) :
          LET h == completed_hyps[nm][k]
          IN  /\ \E i \in 1..Len(h.sketch.tokens) : ~IsVariableSlot(h.sketch.tokens[i])
              /\ \E i \in 1..Len(h.sketch.tokens) : IsVariableSlot(h.sketch.tokens[i])
              /\ Len(heap[h.env].prog) = Len(h.sketch.tokens)
              /\ h.score < h.sketch.prob

\* the position of environment id in the list envs (one position holds it)
PosOf(envs, id) == CHOOSE i \in 1..Len(envs) : envs[i] = id

\* no score is above the prior of its sketch
C27_BelowPrior ==
    /\ (algo = "nbs" /\ pc # "start") =>
          \A k \in 1..Len(HeldHyps(beams, completed_hyps)) :
              HeldHyps(beams, completed_hyps)[k].score
                  <= HeldHyps(beams, completed_hyps)[k].sketch.prob
    /\ (algo = "sample" /\ pc # "start") =>
          /\ \A k \in 1..Len(completed_envs) :
                completed_envs[k].prob <= ghost[completed_envs[k].env].sketch.prob
          /\ pc = "loop" => \A i \in 1..Len(sample_probs) : sample_probs[i] <= 0

\* a step gives no hypothesis a score above the score its parent had: in
\* new_beam_search the hypothesis built on a new clone against the hypothesis of
\* the environment it was cloned from, in sample a sample after the step against
\* the same sample before it
C27_NoIncrease ==
    /\ (algo = "nbs" /\ pc = "loop") =>
          \A k \in 1..Len(HeldHyps(beams', completed_hyps')) :
              LET h == HeldHyps(beams', completed_hyps')[k]
              IN  h.env \in NewClones =>
                      \E j \in 1..Len(LiveHyps(beams, 1)) :
                          /\ LiveHyps(beams, 1)[j].env = ghost'[h.env].parent
                          /\ h.score <= LiveHyps(beams, 1)[j].score
    /\ (algo = "sample" /\ pc = "loop") =>
          /\ pc' = "loop" =>
                \A i \in 1..Len(active_envs') :
                    /\ active_envs'[i] \in Range(active_envs)
                    /\ sample_probs'[i] <= sample_probs[PosOf(active_envs, active_envs'[i])]
          /\ \A k \in (Len(completed_envs) + 1)..Len(completed_envs') :
                /\ completed_envs'[k].env \in Range(active_envs)
                /\ completed_envs'[k].prob
                     <= Add(ghost[completed_envs'[k].env].sketch.prob,
                            sample_probs[PosOf(active_envs, completed_envs'[k].env)])

\* C27: the decoder's scores being log-probabilities (<= 0), in new_beam_search
\* and in sample the score of a hypothesis never increases as steps are
\* appended: a child's score is at most its parent's, and a completed
\* hypothesis's score is at most the prior log-probability of its sketch.
C27_ScoreMonotone == []C27_BelowPrior /\ [][C27_NoIncrease]_vars

\* C27, its case: a sample completed after two steps or more with a score
\* strictly below the prior of its sketch
C27_Witness ==
    /\ algo = "sample" /\ pc \in {"loop", "final"}
    /\ \E k \in 1..Len(completed_envs) :
          /\ Len(heap[completed_envs[k].env].prog) >= 2
          /\ completed_envs[k].prob < ghost[completed_envs[k].env].sketch.prob

\* the decoder's log-probability of action a for the sample at active position i
LogProbAt(i, a) ==
    DecScore(dec, ObsOf(heap[active_envs[i]]), state_tm1[i],
             RowOf(context_encoding, i), RowOf(sketch_encoding, i), a)

\* the score sample holds after a step for the sample on environment id: the
\* accumulated log-probability if it is still active, the recorded score less the
\* sketch prior if it completed in the step
AccumulatedAfter(id, prior) ==
    IF \E k \in (Len(completed_envs) + 1)..Len(completed_envs') : completed_envs'[k].env = id
    THEN LET k == CHOOSE k \in (Len(completed_envs) + 1)..Len(completed_envs') :
                      completed_envs'[k].env = id
         IN  completed_envs'[k].prob - prior
    ELSE sample_probs'[PosOf(active_envs', id)]

\* a step of sample, for every sample that was active: at a fixed token the
\* token's action is executed, or nothing when that action is not valid, and
\* the accumulated score stays; at a variable slot one valid action is executed
\* and its log-probability is added
C28_Step ==
    (algo = "sample" /\ pc = "loop" /\ pc' \in {"loop", "final"}) =>
        \A i \in 1..Len(active_envs) :
            LET id == active_envs[i]
                tok == TokenAt(sketches[i], t)
                kept == \/ pc' = "loop" /\ id \in Range(active_envs')
                        \/ \E k \in (Len(completed_envs) + 1)..Len(completed_envs') :
                              completed_envs'[k].env = id
                valid == ValidActions(world, heap[id])
            IN  IF ~IsVariableSlot(tok)
                THEN IF Lookup(tok) \in Range(valid)
                     THEN /\ heap'[id].prog = Append(heap[id].prog, Lookup(tok))
                          /\ kept
                          /\ AccumulatedAfter(id, sketches[i].prob) = sample_probs[i]
                     ELSE heap'[id] = heap[id] /\ ~kept
                ELSE \E a \in Range(valid) :
                        /\ heap'[id].prog = Append(heap[id].prog, a)
                        /\ kept
                        /\ AccumulatedAfter(id, sketches[i].prob)
                             = sample_probs[i] + LogProbAt(i, a)

\* the score recorded with a completed sample is the prior of its sketch plus the
\* log-probabilities of the actions it executed at variable slots
C28_Recorded ==
    (algo = "sample" /\ pc # "start") =>
        \A k \in 1..Len(completed_envs) :
            LET g == ghost[completed_envs[k].env]
            IN  completed_envs[k].prob = Add(g.sketch.prob, g.ground)

\* C28: in sample, at a step whose sketch token is fixed the action executed is
\* the interpreter action of that token, whatever action was sampled, and the
\* step adds nothing to the accumulated score; at a variable slot the action
\* executed is the sampled one and exactly its log-probability is added; so the
\* score recorded at completion is the sketch prior plus the sampled
\* log-probabilities of the variable-slot steps of that hypothesis only.
C28_SampleScore == []C28_Recorded /\ [][C28_Step]_vars

\* C28, its case: a sample of a sketch with a fixed token and a variable slot
\* completed, its variable-slot steps having added to its score, while another
\* sample is still active
C28_Witness ==
    /\ algo = "sample" /\ pc = "loop" /\ Len(active_envs) > 0
    /\ \E k \in 1..Len(completed_envs) :
          LET g == ghost[completed_envs[k].env]
          IN  /\ g.ground < 0
              /\ \E j \in 1..Len(g.sketch.tokens) : ~IsVariableSlot(g.sketch.tokens[j])
              /\ Len(heap[completed_envs[k].env].prog) >= 2

\* after a step, what a question keeps (completed and live) is within the width,
\* and its completed pool is in descending order of score
C29_WithinWidthAndSorted ==
    (algo = "nbs" /\ ~force /\ (pc \in {"final", "done"} \/ (pc = "loop" /\ t >= 1))) =>
        \A nm \in Range(EnvNames) :
            /\ Len(completed_hyps[nm]) + Len(NewBeamOf(nm)) <= beam_size
            /\ \A i, j \in 1..Len(completed_hyps[nm]) :
                  i < j => completed_hyps[nm][i].score >= completed_hyps[nm][j].score

\* what is returned for a question is its completed pool as it stands, and is
\* what the other value of return_list would have returned for it
C29_SameEitherWay ==
    (algo = "nbs" /\ ~force /\ pc = "done") =>
        \A nm \in Range(EnvNames) :
            /\ ResultsOf(result, nm) = Samples(heap, completed_hyps[nm])
            /\ ResultsOf(result, nm)
                 = ResultsOf(NbsReturn(Args, Cur, EnvNames, ~return_list), nm)

\* C29: in new_beam_search with force_sketch_coverage=False, after every step
\* and for every question the completed pool and the new active beam together
\* hold at most beam_size hypotheses and the completed pool is ordered by
\* descending score; hence the final sort and truncation change nothing and
\* return_list=True yields per question the same entries in the same order as
\* return_list=False.
C29_FinalSortChangesNothing == C29_WithinWidthAndSorted /\ C29_SameEitherWay

\* C29, its case: the search returned a list, a question having filled the width
\* with two completed hypotheses of different scores from a pool that held more
C29_Witness ==
    /\ algo = "nbs" /\ ~force /\ pc = "done" /\ return_list
    /\ \E nm \in Range(EnvNames) :
          /\ Len(completed_hyps[nm]) = beam_size /\ beam_size >= 2
          /\ completed_hyps[nm][1].score > completed_hyps[nm][2].score
          /\ hist[nm].live /\ Len(hist[nm].pool) > beam_size

\* sample never fails on its own assertion or on the unassigned local
C30_NoAssertion ==
    algo = "sample" => raised \notin {"AssertionError", "UnboundLocalError"}

\* in a step of sample, a sample at a variable slot executes a valid action; a
\* sample that executes nothing (the failure branch) is at a fixed token, and the
\* action of that very token is not valid for it
C30_FailureBranch ==
    (algo = "sample" /\ pc = "loop" /\ pc' \in {"loop", "final"}) =>
        \A i \in 1..Len(active_envs) :
            LET id == active_envs[i]
                tok == TokenAt(sketches[i], t)
                valid == Range(ValidActions(world, heap[id]))
            IN  /\ IsVariableSlot(tok) =>
                      /\ Len(heap'[id].prog) = Len(heap[id].prog) + 1
                      /\ heap'[id].prog[Len(heap'[id].prog)] \in valid
                /\ heap'[id] = heap[id] =>
                      /\ ~IsVariableSlot(tok)
                      /\ Lookup(tok) \notin valid
                      /\ \A st \in NewSteps : st[1] # id

\* C30: in sample, the valid-action mask marking exactly the valid actions of
\* each active environment and each having one at least, the action sampled at a
\* variable slot is a valid action of its environment; so the failure branch is
\* reached at fixed tokens only, where the forced action was just computed for
\* that hypothesis: its assertion holds and reads no value left by another
\* hypothesis.
C30_SampledActionValid == []C30_NoAssertion /\ [][C30_FailureBranch]_vars

\* C30, its case: a sample was dropped in the failure branch while another one
\* went on
C30_Witness ==
    /\ algo = "sample" /\ pc = "loop" /\ Len(active_envs) > 0
    /\ \E id \in Clones :
          /\ ~heap[id].done
          /\ id \notin Range(active_envs)
          /\ \E k \in 1..Len(ghost[id].sketch.tokens) : IsVariableSlot(ghost[id].sketch.tokens[k])

\* in a step of beam_search, the new beam of a question has at most live_beam_size
\* hypotheses, live_beam_size being beam_size minus the number of hypotheses the
\* question had completed when the step began (line 807)
C34_Kept ==
    (algo = "bs" /\ pc = "loop" /\ pc' = "loop") =>
        \A nm \in Range(EnvNames) :
            Len(BeamOf(beams', nm)) <= beam_size - Len(completed_hyps[nm])

\* while the search goes on, the completed and the live hypotheses of a question
\* are beam_size at most
C34_Sum ==
    (algo = "bs" /\ pc = "loop") =>
        \A nm \in Range(EnvNames) :
            Len(completed_hyps[nm]) + Len(BeamOf(beams, nm)) <= beam_size

\* C34: in beam_search, at every step and for every question, the live
\* hypotheses kept in the new beam are at most beam_size minus the hypotheses the
\* question had completed at the start of the step, so that its completed and
\* live hypotheses together never exceed beam_size.
C34_LiveBeamSize == []C34_Sum /\ [][C34_Kept]_vars

\* the (row, action) pairs torch.topk ranks for the beam at position b: every row
\* of the padded layout, placeholders included, with every action id
BsPairs == {pr \in (1..max_live_hyp_num) \X Actions : TRUE}

\* the score line 795 gives the pair pr of the beam at position b
PairScore(b, pr) == NewHypScore(Args, Cur, b, (pr[1] - 1) * MemorySize + (pr[2] - 1))

\* the clones the step makes for the question of the beam at position b
Stepped(b) == {id \in NewClones : heap'[id].name = beams[b].name}

\* the pair a new clone was made for: the row of its parent and the action it
\* executed
PairOf(b, id) ==
    << CHOOSE j \in 1..Len(beams[b].hyps) : beams[b].hyps[j].env = ghost'[id].parent,
       heap'[id].prog[Len(heap'[id].prog)] >>

\* a step of beam_search executes, per question, a prefix of the descending
\* ranking of its pairs: at most beam_size clones, each of a live hypothesis and
\* one of its valid actions, each with a finite score, made in descending score
\* order, no pair left out scoring higher than a pair taken; unless the new beam
\* filled up, all of the beam_size best finite pairs are taken; and the step
\* raises nothing
C32_Step ==
    (algo = "bs" /\ pc = "loop" /\ beam_size <= max_live_hyp_num * MemorySize) =>
        /\ pc' \in {"loop", "final"}
        /\ \A st \in NewSteps : st[1] \in NewClones /\ st[2] = t
        /\ \A id \in NewClones : \E b \in 1..Len(beams) : id \in Stepped(b)
        /\ \A b \in 1..Len(beams) :
             LET ids == Stepped(b)
                 finite == {pr \in BsPairs : PairScore(b, pr) # NegInf}
             IN  /\ Cardinality(ids) <= beam_size
                 /\ \A id \in ids :
                      /\ \E j \in 1..Len(beams[b].hyps) :
                             beams[b].hyps[j].env = ghost'[id].parent
                      /\ LET pr == PairOf(b, id)
                             parent == heap[ghost'[id].parent]
                             valid == ValidActions(world, parent)
                         IN  /\ pr[2] \in Range(valid)
                             /\ heap'[id] = EnvStep(world, parent, IndexOf(valid, pr[2]))
                             /\ PairScore(b, pr) # NegInf
                             /\ <<id, t>> \in NewSteps
                 /\ \A id1, id2 \in ids :
                      id1 < id2 => /\ PairOf(b, id1) # PairOf(b, id2)
                                   /\ PairScore(b, PairOf(b, id1)) >= PairScore(b, PairOf(b, id2))
                 /\ \A pr \in BsPairs :
                      (\A id \in ids : PairOf(b, id) # pr) =>
                          \A id \in ids : PairScore(b, pr) <= PairScore(b, PairOf(b, id))
                 /\ Len(BeamOf(beams', beams[b].name))
                        # beam_size - Len(completed_hyps[beams[b].name])
                      => Cardinality(ids) = Min(beam_size, Cardinality(finite))

\* the placeholder is in no beam, no completed pool and no result, and it is
\* never stepped
C32_NoPlaceholder ==
    (algo = "bs" /\ pc # "start") =>
        /\ \A b \in 1..Len(beams) : \A j \in 1..Len(beams[b].hyps) :
              LET h == beams[b].hyps[j]
              IN  /\ h.env \in 1..Len(heap) /\ h.score # NegInf /\ h.ob # EmptyOb
                  /\ heap[h.env].name = beams[b].name
        /\ \A nm \in Range(EnvNames) : \A k \in 1..Len(completed_hyps[nm]) :
              /\ completed_hyps[nm][k].env \in 1..Len(heap)
              /\ completed_hyps[nm][k].score # NegInf
        /\ \A k \in 1..Len(steps) : steps[k][1] \in Clones
        /\ pc = "done" =>
              \A nm \in Range(EnvNames) : \A k \in 1..Len(result.val[nm]) :
                  /\ result.val[nm][k].trajectory.src \in Clones
                  /\ result.val[nm][k].prob # NegInf

\* C32: in beam_search, at every step and for every live question, the
\* candidates considered are the beam_size highest-scoring (live hypothesis,
\* valid action) pairs of the question, taken in descending score order from
\* one top-k selection over its padded rows; an invalid action or a padding
\* placeholder is never expanded, never stepped and in no beam or result, the
\* walk over a question's candidates stopping at the first non-finite score.
C32_TopCandidates == []C32_NoPlaceholder /\ [][C32_Step]_vars

\* C32, its case: at the last step (the search then stopped, so that the buffers
\* are still those the step read) a question had fewer finite pairs than
\* beam_size, so that the selection held a non-finite score, and clones were made
C32_Witness ==
    /\ algo = "bs" /\ pc = "final" /\ t >= 1
    /\ \E k \in 1..Len(steps) : steps[k][2] = t
    /\ \E b \in 1..Len(beams) :
          Cardinality({pr \in BsPairs : PairScore(b, pr) # NegInf}) < beam_size

\* the position of the question `name` among the live questions
BeamPos(bs, name) == CHOOSE b \in 1..Len(bs) : bs[b].name = name

\* the layout of beam_search's buffers while it runs: live questions times
\* max_live_hyp_num rows; the row of the j-th hypothesis of the b-th live question
\* holds its observation, its score and the decoder state that has read the
\* observations of its own history; the other rows hold the placeholder; every
\* row's context is the context of its question
C33_Layout ==
    (algo = "bs" /\ pc = "loop") =>
        LET m == max_live_hyp_num
            rows == Len(beams) * m
        IN  /\ \A b \in 1..Len(beams) : Len(beams[b].hyps) <= m
            /\ \E b \in 1..Len(beams) : Len(beams[b].hyps) = m
            /\ live_beam_names = [b \in 1..Len(beams) |-> beams[b].name]
            /\ Len(observations_tm1) = rows
            /\ Len(state_tm1) = rows
            /\ Len(hyp_scores_tm1) = rows
            /\ RowsOf(context_encoding_expanded, rows)
            /\ \A b \in 1..Len(beams) : \A j \in 1..m :
                 LET row == (b - 1) * m + j
                 IN  /\ ContextRowIs(context_encoding_expanded, row, beams[b].name)
                     /\ IF j <= Len(beams[b].hyps)
                        THEN LET h == beams[b].hyps[j]
                             IN  /\ observations_tm1[row] = ObsOf(heap[h.env])
                                 /\ observations_tm1[row] = h.ob
                                 /\ hyp_scores_tm1[row] = h.score
                                 /\ state_tm1[row].ctx = beams[b].name
                                 /\ state_tm1[row].seen = SeenBy(heap[h.env])
                        ELSE /\ observations_tm1[row] = EmptyOb
                             /\ hyp_scores_tm1[row] = NegInf

\* a step of beam_search gathers every row of the new layout from the row of its
\* parent in the previous layout, max_live_hyp_num * beam_id + prev_hyp_id, and a
\* placeholder's from row 0
C33_Gathered ==
    (algo = "bs" /\ pc = "loop" /\ pc' = "loop") =>
        \A b \in 1..Len(beams') : \A j \in 1..max_live_hyp_num' :
            LET row == (b - 1) * max_live_hyp_num' + j
                parent_row ==
                    IF j <= Len(beams'[b].hyps)
                    THEN LET parent == ghost'[beams'[b].hyps[j].env].parent
                             b0 == BeamPos(beams, beams'[b].name)
                             j0 == CHOOSE k \in 1..Len(beams[b0].hyps) :
                                       beams[b0].hyps[k].env = parent
                         IN  max_live_hyp_num * (b0 - 1) + (j0 - 1) + 1
                    ELSE 1
            IN  /\ state_tm1'[row]
                     = NextStateRow(state_tm1[parent_row], observations_tm1[parent_row])
                /\ j <= Len(beams'[b].hyps) =>
                     /\ beams'[b].hyps[j].parent_beam_abs_pos + 1 = parent_row
                     /\ hyp_scores_tm1'[row]
                          = Add(hyp_scores_tm1[parent_row],
                                ActionProb(Args, Cur, parent_row,
                                           heap'[beams'[b].hyps[j].env].prog[t + 1]))

\* C33: in beam_search, after every step the batch is rectangular and
\* index-aligned: (live questions) x (largest live beam) rows, the row b*max_live+j
\* holding the state, observation and score gathered from the parent row of the
\* j-th live hypothesis of the b-th live question, or a placeholder, and the
\* expanded context row of that position being the context of that question.
C33_Rectangular == []C33_Layout /\ [][C33_Gathered]_vars

\* C33, its case: a padded layout whose second question has a hypothesis that was
\* gathered from a row past the first, two steps into the search
C33_Witness ==
    /\ algo = "bs" /\ pc = "loop" /\ t >= 2
    /\ \E b \in 1..Len(beams) : Len(beams[b].hyps) < max_live_hyp_num
    /\ \E b \in 2..Len(beams) : \E j \in 1..Len(beams[b].hyps) :
          beams[b].hyps[j].parent_beam_abs_pos >= 2

RECURSIVE ScoreRun(_, _, _)
\* the scorer's loop run to its end on the batch trajs
ScoreRun(d, S, trajs) == IF S.pc = "loop" THEN ScoreRun(d, ScoreStep(d, S, trajs), trajs) ELSE S

\* what compute_trajectory_actions_prob returns for the trajectory tr scored alone
ScoredAlone(d, tr) ==
    ScoreReturn(ScoreRun(d, ScoreBegin(<<tr>>), <<tr>>), <<tr>>).val[1]

\* C35: batch invariance of the scorer: the log-probability
\* compute_trajectory_actions_prob computes for a trajectory inside a batch is
\* the one it computes for the trajectory scored alone, whatever the other
\* trajectories of the batch and their lengths; the padding to the batch's
\* longest trajectory adds nothing to a shorter trajectory's result.
C35_BatchInvariance ==
    (algo = "score" /\ pc = "done") =>
        \A i \in 1..Len(trajectories) :
            result.val[i] = ScoredAlone(dec, trajectories[i])

\* C35, its case: a returned batch with a trajectory shorter than another, whose
\* padded steps had a score for the padding action that was not zero, and whose
\* own variable slots did count
C35_Witness ==
    /\ algo = "score" /\ pc = "done" /\ Len(trajectories) = 2
    /\ \E i \in 1..2 :
          LET tr == trajectories[i]
          IN  /\ Len(tr.actions) < MaxTimeStep(trajectories)
              /\ \E k \in (Len(tr.actions) + 1)..Len(action_logits) :
                    action_logits[k][i][TgtActionId(tr, k - 1)] # 0
              /\ result.val[i] # tr.prior

\* constraint_sketches is given: it is a dict with an entry at least
Given == ~constraint_sketches.none /\ DOMAIN constraint_sketches.items # {}

\* the sketches the initial beam of question nm is to be built from: its entry of
\* constraint_sketches (none if it has no entry) when the argument is given, what
\* the sketch predictor gives otherwise
SketchesFor(nm) ==
    IF Given
    THEN IF nm \in DOMAIN constraint_sketches.items THEN constraint_sketches.items[nm]
         ELSE <<>>
    ELSE cands[nm]

\* the call of new_beam_search builds, per question, one hypothesis per sketch of
\* SketchesFor, in order, and asks the sketch predictor (once, K = 5) exactly when
\* constraint_sketches is not given
C31_Call ==
    (algo = "nbs" /\ pc = "start" /\ pc' # "start") =>
        /\ asked' = IF Given THEN <<>> ELSE <<5>>
        /\ Len(beams') = Len(EnvNames)
        /\ \A b \in 1..Len(EnvNames) :
              LET sks == SketchesFor(EnvNames[b])
              IN  /\ beams'[b].name = EnvNames[b]
                  /\ Len(beams'[b].hyps) = Len(sks)
                  /\ \A k \in 1..Len(sks) :
                        /\ beams'[b].hyps[k].sketch = sks[k]
                        /\ beams'[b].hyps[k].score = sks[k].prob
                        /\ heap'[beams'[b].hyps[k].env] = NewEnv(EnvNames[b])

\* the predictor is asked at no other moment; every hypothesis follows a sketch of
\* SketchesFor; a question without sketch has no hypothesis and an empty result
C31_Later ==
    (algo = "nbs" /\ pc # "start") =>
        /\ asked = IF Given THEN <<>> ELSE <<5>>
        /\ \A nm \in Range(EnvNames) :
              /\ \A k \in 1..Len(completed_hyps[nm]) :
                    \E i \in 1..Len(SketchesFor(nm)) :
                        completed_hyps[nm][k].sketch = SketchesFor(nm)[i]
              /\ SketchesFor(nm) = <<>> =>
                    /\ completed_hyps[nm] = <<>>
                    /\ \A id \in Clones : heap[id].name # nm
                    /\ pc = "done" => ResultsOf(result, nm) = <<>>

\* C31: in new_beam_search, when constraint_sketches is supplied and non-empty,
\* the initial beam of each question is built only from
\* constraint_sketches[env.name] and the sketch predictor is never consulted; a
\* question with no entry gets an empty initial beam and an empty result list;
\* the predictor (K=5) is used only when constraint_sketches is None or empty.
C31_ConstraintSketches == []C31_Later /\ [][C31_Call]_vars

\* C31, its case: a call that was given sketches for one question only returned:
\* that question has a result built on a sketch the predictor did not give, the
\* other one has none although the predictor had a sketch for it
C31_Witness ==
    /\ algo = "nbs" /\ pc = "done" /\ Given
    /\ \E nm, other \in Range(EnvNames) :
          /\ nm \in DOMAIN constraint_sketches.items
          /\ Len(completed_hyps[nm]) > 0
          /\ \A i \in 1..Len(cands[nm]) : completed_hyps[nm][1].sketch # cands[nm][i]
          /\ other \notin DOMAIN constraint_sketches.items
          /\ Len(cands[other]) > 0
          /\ ResultsOf(result, other) = <<>>

\* the arguments of the call, constraint_sketches being None
NoneArgs == [Args EXCEPT !.constraint_sketches = NoConstraint]

\* the locals after a part of the call that assigns those of S0
After(S0) == [k \in DOMAIN Cur |-> IF k \in DOMAIN S0 THEN S0[k] ELSE Cur[k]]

\* every step of a call of sample is a step of the call that is given the same
\* environments, sample_num and collaborators and constraint_sketches = None, and
\* that draws the same sketch positions and the same actions
C37_SameStep ==
    algo = "sample" =>
        /\ (pc = "start" /\ sample_num = 0) => result' = [kind |-> "list", val |-> <<>>]
        /\ (pc = "start" /\ sample_num # 0) =>
              \E draw \in Draws(NoneArgs, EnvNames) :
                  Cur' = After(SampleBegin(NoneArgs, EnvNames, draw))
        /\ pc = "loop" =>
              \E sampled \in [1..Len(active_envs) -> Actions] :
                  /\ \A i \in 1..Len(active_envs) : sampled[i] \in Support(NoneArgs, Cur, i)
                  /\ Cur' = After(SampleStep(NoneArgs, Cur, sampled))
        /\ pc = "final" => result' = SampleReturn(Cur)

\* a call of sample that got past its first test asked the sketch predictor once,
\* with K = 5, and every clone follows a sketch the predictor gave its question
C37_FromPredictor ==
    (algo = "sample" /\ pc # "start" /\ sample_num # 0) =>
        /\ asked = <<5>>
        /\ \A id \in Clones :
              \E i \in 1..Len(cands[heap[id].name]) :
                  ghost[id].sketch = cands[heap[id].name][i]

\* C37: sample does not depend on its constraint_sketches argument: a call with
\* any constraint_sketches value and a call with constraint_sketches=None (same
\* environments, sample_num, seeds and collaborator outputs) obtain their
\* sketches from the sketch predictor with K=5 and return the same samples.
C37_ConstraintIgnored == []C37_FromPredictor /\ [][C37_SameStep]_vars

\* C37, its case: a call that was given sketches for a question returned a sample
\* of that question that follows another sketch, one the predictor gave
C37_Witness ==
    /\ algo = "sample" /\ pc = "done"
    /\ ~constraint_sketches.none
    /\ \E k \in 1..Len(result.val) :
          LET id == result.val[k].trajectory.src
              nm == heap[id].name
          IN  /\ nm \in DOMAIN constraint_sketches.items
              /\ constraint_sketches.items[nm] # <<>>
              /\ \A i \in 1..Len(constraint_sketches.items[nm]) :
                    ghost[id].sketch # constraint_sketches.items[nm][i]

\* the rows of sample_gpu's batch
GpuRows == 1..Len(sample_probs)

\* the score sample_gpu holds for a row is the sum of the log-probabilities of the
\* actions the row's environment executed
C38_ScoreOfExecuted ==
    (algo = "gpu" /\ pc \in {"loop", "final", "done"}) =>
        /\ \A i \in GpuRows : sample_probs[i] = ghost[GpuEnv(Cur, i)].ground
        /\ pc = "done" =>
              \A k \in 1..Len(result.val) :
                  result.val[k].prob = ghost[result.val[k].trajectory.src].ground

\* an iteration of sample_gpu steps exactly the active environments, once each,
\* and leaves the score of a row that is not active as it is
C38_WhileActive ==
    (algo = "gpu" /\ pc = "loop") =>
        /\ NewSteps = {<<GpuEnv(Cur, i), t>> : i \in Range(active_envs)}
        /\ \A i \in GpuRows :
              i \notin Range(active_envs) =>
                  /\ heap'[GpuEnv(Cur, i)] = heap[GpuEnv(Cur, i)]
                  /\ sample_probs'[i] = sample_probs[i]

\* C38: in sample_gpu, the score reported for each sample is the sum of the
\* log-probabilities of exactly the actions that environment executed while it
\* was active; iterations run after that environment finished (because other
\* environments of the batch are still active) add nothing to its score, and
\* every environment is stepped only while it is active.
C38_GpuScore == []C38_ScoreOfExecuted /\ [][C38_WhileActive]_vars

\* an iteration of sample_gpu steps exactly the active environments, once each
C38_SteppedWhileActive ==
    (algo = "gpu" /\ pc = "loop") =>
        /\ NewSteps = {<<GpuEnv(Cur, i), t>> : i \in Range(active_envs)}
        /\ \A i \in GpuRows :
              i \notin Range(active_envs) => heap'[GpuEnv(Cur, i)] = heap[GpuEnv(Cur, i)]

\* C36: when decode_examples returns, it returns one result list per input
\* environment, in input order (every sample of list i was read from a clone of
\* environments[i]), each list has at most beam_size samples, sorted by
\* descending score, and the list of an environment without sketches is empty;
\* this holds for every batch_size, the names of a batch being distinct.  While the
\* batches are processed, decode_results holds one list per environment of the
\* batches already taken.
C36_Results ==
    (algo = "decode" /\ pc = "done") =>
        /\ result.kind = "list"
        /\ Len(result.val) = Len(environments)
        /\ \A i \in 1..Len(environments) :
             LET r == result.val[i]
             IN  /\ Len(r) <= beam_size
                 /\ \A k \in 1..Len(r) : r[k].trajectory.name = environments[i]
                 /\ \A k \in 1..(Len(r) - 1) : r[k].prob >= r[k + 1].prob
                 /\ cands[environments[i]] = <<>> => r = <<>>

C36_Progress ==
    (algo = "decode" /\ pc \in {"loop", "final"}) =>
        /\ Len(decode_results) = Min(batch_id * batch_size, Len(environments))
        /\ pc = "final" <=> Len(decode_results) = Len(environments)

C36_OneListPerEnvironment == C36_Results /\ C36_Progress

\* C36, its case: decode_examples returned on three environments taken in
\* batches of two (the last batch is shorter); one environment had candidate
\* sketches and every candidate failed, so that its list is empty, and another
\* got two samples of different scores
C36_Witness ==
    /\ algo = "decode" /\ pc = "done"
    /\ Len(environments) = 3 /\ batch_size = 2
    /\ \E i, j \in 1..3 :
         /\ cands[environments[i]] # <<>> /\ result.val[i] = <<>>
         /\ Len(result.val[j]) = 2
         /\ result.val[j][1].prob > result.val[j][2].prob

\* the same with an environment that got no sketch
C36_WitnessNoSketch ==
    /\ algo = "decode" /\ pc = "done"
    /\ Len(environments) = 3 /\ batch_size = 2
    /\ \E i, j \in 1..3 :
         /\ cands[environments[i]] = <<>> /\ result.val[i] = <<>>
         /\ Len(result.val[j]) = 2
====
